---------------------------- MODULE Spec2Model ----------------------------
(***************************************************************************)
(* A model of the RagRAG ingestion pipeline and vector store wrapper:      *)
(*   src/src/ingest.py   chunk_text, generate_chunk_id, ingest_document,   *)
(*                       ingest_directory                                  *)
(*   src/src/store.py    ChromaStore (add / upsert / query / delete)       *)
(*   src/src/retrieve.py retrieve                                          *)
(*   src/src/semantic_scholar.py  the summary -> full PDF upgrade          *)
(* Texts are TLA+ strings and are processed character by character, the    *)
(* way the Python string methods used by the code process them.            *)
(***************************************************************************)
EXTENDS Integers, Sequences, FiniteSets, Bags, TLC

VARIABLES
    ct,         \* the frame of one chunk_text call (ingest.py:85-166)
    idc,        \* the calls of generate_chunk_id made so far (ingest.py:169-183)
    fs,         \* the file system: path -> what its loader yields
    reingest,   \* the chunks ingest_document returned that are not upserted yet
    dir,        \* the frame of one ingest_directory call (ingest.py:228-263)
    up,         \* the frame of one upgrade_top_papers call (semantic_scholar.py:378-421)
    fetch,      \* the frame of one fetch run (community.py:133-315, semantic_scholar.py:253-281)
    chroma,     \* how the installed chromadb treats ids that clash
    collection, \* the rows of the ChromaDB collection (store.py:22-25)
    last        \* the last store operation: its arguments, outcome and calls

vars == <<ct, idc, fs, reingest, dir, up, fetch, chroma, collection, last>>

\* no call in progress
CtIdle == [pc |-> "idle"]
DirIdle == [pc |-> "idle"]
UpIdle == [pc |-> "idle"]
FetchIdle == [pc |-> "idle"]

-----------------------------------------------------------------------------
(* Python string methods used by the code                                  *)

Min(a, b) == IF a < b THEN a ELSE b

Char(s, i) == SubSeq(s, i, i)

\* the whitespace characters str.strip(), str.split() and the \s of re act
\* on (those of str.isspace), as far as a string of this module can hold
\* them: space, \n, \t, \r, \f, and the characters U+000B, U+001C, U+001D,
\* U+001E, U+001F, U+0085, U+00A0 and U+1680, written as themselves.  A
\* string literal holds a character above U+00FF only when the low byte of
\* its code is 128 or more, so the other spaces of Python (U+2000..U+200A,
\* U+2028, U+2029, U+202F, U+205F, U+3000) stand in no string of this module.
Whitespace ==
    {" ", "\n", "\t", "\r", "\f", "", "", "", "", "", "", " ", " "}

RECURSIVE StrLStrip(_)
StrLStrip(s) ==
    IF Len(s) > 0 /\ Char(s, 1) \in Whitespace
    THEN StrLStrip(SubSeq(s, 2, Len(s)))
    ELSE s

RECURSIVE StrRStrip(_)
StrRStrip(s) ==
    IF Len(s) > 0 /\ Char(s, Len(s)) \in Whitespace
    THEN StrRStrip(SubSeq(s, 1, Len(s) - 1))
    ELSE s

\* s.strip()
StrStrip(s) == StrRStrip(StrLStrip(s))

\* s.find(sep, i): the least position j >= i at which sep occurs, 0 if none
RECURSIVE StrFind(_, _, _)
StrFind(s, sep, i) ==
    IF i + Len(sep) - 1 > Len(s) THEN 0
    ELSE IF SubSeq(s, i, i + Len(sep) - 1) = sep THEN i
    ELSE StrFind(s, sep, i + 1)

\* s.split(sep): the pieces between the non-overlapping occurrences of sep,
\* scanned left to right; always at least one piece
RECURSIVE StrSplit(_, _)
StrSplit(s, sep) ==
    LET j == StrFind(s, sep, 1)
    IN  IF j = 0 THEN <<s>>
        ELSE <<SubSeq(s, 1, j - 1)>> \o StrSplit(SubSeq(s, j + Len(sep), Len(s)), sep)

\* the length of the leading run of non-whitespace characters of s
RECURSIVE WordEnd(_, _)
WordEnd(s, k) ==
    IF k < Len(s) /\ Char(s, k + 1) \notin Whitespace THEN WordEnd(s, k + 1) ELSE k

\* s.split(): the maximal runs of non-whitespace characters
RECURSIVE StrWords(_)
StrWords(s) ==
    LET t == StrLStrip(s)
    IN  IF t = "" THEN <<>>
        ELSE LET k == WordEnd(t, 0)
             IN  <<SubSeq(t, 1, k)>> \o StrWords(SubSeq(t, k + 1, Len(t)))

\* sep.join(parts)
RECURSIVE StrJoin(_, _)
StrJoin(sep, parts) ==
    IF parts = <<>> THEN ""
    ELSE IF Len(parts) = 1 THEN parts[1]
    ELSE parts[1] \o sep \o StrJoin(sep, Tail(parts))

\* lst[-n:] for n > 0: the last n elements, all of them when there are fewer
LastN(lst, n) == SubSeq(lst, Len(lst) - Min(n, Len(lst)) + 1, Len(lst))

\* lst[:n]
FirstN(lst, n) == SubSeq(lst, 1, Min(n, Len(lst)))

-----------------------------------------------------------------------------
(* chunk_text (ingest.py:85-166)                                           *)

\* overlap_ratio is a float in [0,1); it is modelled as a fraction <<n, d>>
\* whose denominator is a power of two, so that chunk_size * overlap_ratio is
\* exact in binary floating point and int() is the integer quotient.
OverlapSize(chunk_size, overlap_ratio) ==
    (chunk_size * overlap_ratio[1]) \div overlap_ratio[2]

\* SentenceStep cutting the sentence down to chunk_size words
SentenceStepTruncating(sst, raw_sent, chunk_size, overlap_size) ==
    IF StrStrip(raw_sent) = "" THEN sst
    ELSE [sst EXCEPT !.sentence_chunk =
                         Append(@, StrJoin(" ", FirstN(StrWords(raw_sent), chunk_size))),
                     !.sentence_size = @ + Min(Len(StrWords(raw_sent)), chunk_size)]

\* One iteration of the sentence loop (ingest.py:131-146) on the loop state
\* sst = [chunks, sentence_chunk, sentence_size].
SentenceStep(sst, raw_sent, chunk_size, overlap_size) ==
    LET sent == StrStrip(raw_sent)
        sent_size == Len(StrWords(sent))
        emit == sst.sentence_size + sent_size > chunk_size /\ sst.sentence_chunk # <<>>
        overlap_words ==
            FirstN(StrWords(sst.sentence_chunk[Len(sst.sentence_chunk)]), overlap_size)
        chunks1 == IF emit
                   THEN Append(sst.chunks, StrJoin(". ", sst.sentence_chunk) \o ".")
                   ELSE sst.chunks
        chunk1 == IF emit THEN overlap_words ELSE sst.sentence_chunk
        size1 == IF emit THEN Len(overlap_words) ELSE sst.sentence_size
    IN  IF sent = "" THEN sst
        ELSE [chunks |-> chunks1,
              sentence_chunk |-> Append(chunk1, sent),
              sentence_size |-> size1 + sent_size]

RECURSIVE SentenceLoop(_, _, _, _)
SentenceLoop(sst, sentences, chunk_size, overlap_size) ==
    IF sentences = <<>> THEN sst
    ELSE SentenceLoop(SentenceStep(sst, Head(sentences), chunk_size, overlap_size),
                      Tail(sentences), chunk_size, overlap_size)

\* The branch for a paragraph larger than chunk_size (ingest.py:118-149) on
\* the loop state st = [chunks, current_chunk, current_size]; para is stripped.
SplitLargeParagraph(st, para, chunk_size, overlap_size) ==
    LET flushed == IF st.current_chunk # <<>>
                   THEN Append(st.chunks, StrJoin(" ", st.current_chunk))
                   ELSE st.chunks
        sst == SentenceLoop([chunks |-> flushed, sentence_chunk |-> <<>>,
                             sentence_size |-> 0],
                            StrSplit(para, ". "), chunk_size, overlap_size)
        chunks1 == IF sst.sentence_chunk # <<>>
                   THEN Append(sst.chunks, StrJoin(". ", sst.sentence_chunk) \o ".")
                   ELSE sst.chunks
    IN  [chunks |-> chunks1,
         current_chunk |-> IF st.current_chunk # <<>> THEN <<>> ELSE st.current_chunk,
         current_size |-> IF st.current_chunk # <<>> THEN 0 ELSE st.current_size]

\* The branch for a paragraph that fits (ingest.py:150-160); para is stripped.
AccumulateParagraph(st, para, chunk_size, overlap_size) ==
    LET para_size == Len(StrWords(para))
        emit == st.current_size + para_size > chunk_size /\ st.current_chunk # <<>>
        seeded == IF overlap_size > 0 THEN LastN(st.current_chunk, overlap_size)
                  ELSE <<>>
        chunks1 == IF emit THEN Append(st.chunks, StrJoin(" ", st.current_chunk))
                   ELSE st.chunks
        chunk1 == IF emit THEN seeded ELSE st.current_chunk
        size1 == IF emit THEN Len(seeded) ELSE st.current_size
    IN  [chunks |-> chunks1,
         current_chunk |-> Append(chunk1, para),
         current_size |-> size1 + para_size]

\* One iteration of the paragraph loop (ingest.py:109-160).
ParagraphStep(st, raw_para, chunk_size, overlap_size) ==
    LET para == StrStrip(raw_para)
    IN  IF para = "" THEN st
        ELSE IF Len(StrWords(para)) > chunk_size
             THEN SplitLargeParagraph(st, para, chunk_size, overlap_size)
             ELSE AccumulateParagraph(st, para, chunk_size, overlap_size)

RECURSIVE ParagraphLoop(_, _, _, _)
ParagraphLoop(st, paragraphs, chunk_size, overlap_size) ==
    IF paragraphs = <<>> THEN st
    ELSE ParagraphLoop(ParagraphStep(st, Head(paragraphs), chunk_size, overlap_size),
                       Tail(paragraphs), chunk_size, overlap_size)

\* FlushFinal with the final flush forgotten
FlushFinalDropped(st) == st.chunks

\* The final flush (ingest.py:162-166): the list chunk_text returns.
FlushFinal(st) ==
    IF st.current_chunk # <<>>
    THEN Append(st.chunks, StrJoin(" ", st.current_chunk))
    ELSE st.chunks

\* chunk_text(text, chunk_size, overlap_ratio) as a function of its arguments.
chunk_text(text, chunk_size, overlap_ratio) ==
    FlushFinal(ParagraphLoop([chunks |-> <<>>, current_chunk |-> <<>>,
                              current_size |-> 0],
                             StrSplit(text, "\n\n"), chunk_size,
                             OverlapSize(chunk_size, overlap_ratio)))

-----------------------------------------------------------------------------
(* pathlib.Path(p).name, .suffix and .stem for POSIX paths                 *)

RECURSIVE DropDotParts(_)
DropDotParts(parts) ==
    IF parts = <<>> THEN <<>>
    ELSE IF Head(parts) \in {"", "."} THEN DropDotParts(Tail(parts))
    ELSE <<Head(parts)>> \o DropDotParts(Tail(parts))

\* Path(p).name: the last component, empty and "." components dropped
PathName(p) ==
    LET parts == DropDotParts(StrSplit(p, "/"))
    IN  IF parts = <<>> THEN "" ELSE parts[Len(parts)]

\* name.rfind("."), counted from 1; 0 when there is no dot
RECURSIVE StrRFindDot(_, _)
StrRFindDot(name, i) ==
    IF i = 0 THEN 0
    ELSE IF Char(name, i) = "." THEN i
    ELSE StrRFindDot(name, i - 1)

\* the final dot splits the name unless it is its first or its last character
PathSplitsAt(name) ==
    LET i == StrRFindDot(name, Len(name))
    IN  IF 1 < i /\ i < Len(name) THEN i ELSE 0

\* Path(p).suffix
PathSuffix(p) ==
    LET name == PathName(p)
        i == PathSplitsAt(name)
    IN  IF i = 0 THEN "" ELSE SubSeq(name, i, Len(name))

\* Path(p).stem
PathStem(p) ==
    LET name == PathName(p)
        i == PathSplitsAt(name)
    IN  IF i = 0 THEN name ELSE SubSeq(name, 1, i - 1)

\* the characters str.lower() changes and what it changes them to, place by
\* place: the capitals of ASCII and of Latin-1, and the capitals above
\* U+00FF that a string of this module can hold together with their
\* lower-case letter
UpperCase ==
    "ABCDEFGHIJKLMNOPQRSTUVWXYZÀÁÂÃÄÅÆÇÈÉÊËÌÍÎÏÐÑÒÓÔÕÖØÙÚÛÜÝÞƂƄƇƋ"
    \o "ƎƑƘƠƢƤƦƧƩƬƮƯƱƲƳƵƷƸƼǄǅǇǈǊǋǍǏǑǓǕǗǙǛǞǠǢǤǦǨǪǬǮǱǲǴǶǷǸǺǼǾΆΈΉΊΌΎΏΑΒ"
    \o "ΓΔΕΖΗΘΙΚΛΜΝΞΟΠΡΤΥΦΧΨΩΪΫϏϘϚϜϞϠϢϤϦϨϪϬϮϴϷϹϺҀҊҌҎҐҒҔҖҘҚҜҞҠҢҤҦҨҪҬҮ"
    \o "ҰҲҴҶҸҺҼҾӀӁӃӅӇӉӋӍӐӒӔӖӘӚӜӞӠӢӤӦӨӪӬӮӰӲӴӶӸӺӼӾᎰᎱᎲᎳᎴᎵᎶᎷᎸᎹᎺᎻᎼᎽᎾᎿᏀᏁᏂᏃ"
    \o "ᏄᏅᏆᏇᏈᏉᏊᏋᏌᏍᏎᏏᏐᏑᏒᏓᏔᏕᏖᏗᏘᏙᏚᏛᏜᏝᏞᏟᏠᏡᏢᏣᏤᏥᏦᏧᏨᏩᏪᏫᏬᏭᏮᏯᏰᏱᏲᏳᏴᏵᲐᲑᲒᲓᲔᲕᲖᲗᲘᲙ"
    \o "ᲚᲛᲜᲝᲞᲟᲠᲡᲢᲣᲤᲥᲦᲧᲨᲩᲪᲫᲬᲭᲮᲯᲰᲱᲲᲳᲴᲵᲶᲷᲸᲹᲺᲽᲾᲿẀẂẄẆẈẊẌẎẐẒẔẞẠẢẤẦẨẪẬẮẰẲẴẶ"
    \o "ẸẺẼẾỀỂỄỆỈỊỌỎỐỒỔỖỘỚỜỞỠỢỤỦỨỪỬỮỰỲỴỶỸỺỼỾᾈᾉᾊᾋᾌᾍᾎᾏᾘᾙᾚᾛᾜᾝᾞᾟᾨᾩᾪᾫᾬᾭᾮᾯ"
    \o "ᾸᾹᾼῌῘῙῨῩῬῼↃⒶⒷⒸⒹⒺⒻⒼⒽⒾⒿⓀⓁⓂⓃⓄⓅⓆⓇⓈⓉⓊⓋⓌⓍⓎⓏⲀⲂⲄⲆⲈⲊⲌⲎⲐⲒⲔⲖⲘⲚⲜⲞⲠⲢⲤⲦⲨⲪⲬ"
    \o "ⲮⲰⲲⲴⲶⲸⲺⲼⲾⳀⳂⳄⳆⳈⳊⳌⳎⳐⳒⳔⳖⳘⳚⳜⳞⳠⳢⳫⳭⳲꚀꚂꚄꚆꚈꚊꚌꚎꚐꚒꚔꚖꚘꚚꞀꞂꞄꞆꞋꞐꞒꞖꞘꞚꞜꞞꞠꞢꞤꞦ"
    \o "ꞨꞰꞱꞲꞴꞶꞸꞺꞼꞾꟀꟂꟄꟅꟆꟇꟉꟐꟖꟘꟵ"
LowerCase ==
    "abcdefghijklmnopqrstuvwxyzàáâãäåæçèéêëìíîïðñòóôõöøùúûüýþƃƅƈƌ"
    \o "ǝƒƙơƣƥʀƨʃƭʈưʊʋƴƶʒƹƽǆǆǉǉǌǌǎǐǒǔǖǘǚǜǟǡǣǥǧǩǫǭǯǳǳǵƕƿǹǻǽǿάέήίόύώαβ"
    \o "γδεζηθικλμνξοπρτυφχψωϊϋϗϙϛϝϟϡϣϥϧϩϫϭϯθϸϲϻҁҋҍҏґғҕҗҙқҝҟҡңҥҧҩҫҭү"
    \o "ұҳҵҷҹһҽҿӏӂӄӆӈӊӌӎӑӓӕӗәӛӝӟӡӣӥӧөӫӭӯӱӳӵӷӹӻӽӿꮀꮁꮂꮃꮄꮅꮆꮇꮈꮉꮊꮋꮌꮍꮎꮏꮐꮑꮒꮓ"
    \o "ꮔꮕꮖꮗꮘꮙꮚꮛꮜꮝꮞꮟꮠꮡꮢꮣꮤꮥꮦꮧꮨꮩꮪꮫꮬꮭꮮꮯꮰꮱꮲꮳꮴꮵꮶꮷꮸꮹꮺꮻꮼꮽꮾꮿᏸᏹᏺᏻᏼᏽაბგდევზთიკ"
    \o "ლმნოპჟრსტუფქღყშჩცძწჭხჯჰჱჲჳჴჵჶჷჸჹჺჽჾჿẁẃẅẇẉẋẍẏẑẓẕßạảấầẩẫậắằẳẵặ"
    \o "ẹẻẽếềểễệỉịọỏốồổỗộớờởỡợụủứừửữựỳỵỷỹỻỽỿᾀᾁᾂᾃᾄᾅᾆᾇᾐᾑᾒᾓᾔᾕᾖᾗᾠᾡᾢᾣᾤᾥᾦᾧ"
    \o "ᾰᾱᾳῃῐῑῠῡῥῳↄⓐⓑⓒⓓⓔⓕⓖⓗⓘⓙⓚⓛⓜⓝⓞⓟⓠⓡⓢⓣⓤⓥⓦⓧⓨⓩⲁⲃⲅⲇⲉⲋⲍⲏⲑⲓⲕⲗⲙⲛⲝⲟⲡⲣⲥⲧⲩⲫⲭ"
    \o "ⲯⲱⲳⲵⲷⲹⲻⲽⲿⳁⳃⳅⳇⳉⳋⳍⳏⳑⳓⳕⳗⳙⳛⳝⳟⳡⳣⳬⳮⳳꚁꚃꚅꚇꚉꚋꚍꚏꚑꚓꚕꚗꚙꚛꞁꞃꞅꞇꞌꞑꞓꞗꞙꞛꞝꞟꞡꞣꞥꞧ"
    \o "ꞩʞʇʝꞵꞷꞹꞻꞽꞿꟁꟃꞔʂᶎꟈꟊꟑꟗꟙꟶ"
UpperChars == {Char(UpperCase, i) : i \in 1..Len(UpperCase)}

\* the capitals whose lower-case letter no string of this module can hold
UnloweredChars ==
    LET chars == "ƁƆƉƊƏƐƓƔƖƗƜƝƟϽϾϿႠႡႢႣႤႥႦႧႨႩႪႫႬႭႮႯႰႱႲႳႴႵႶႷႸႹႺႻႼႽႾႿჀჁჂჃჄჅჇჍᎠᎡᎢ"
                 \o "ᎣᎤᎥᎦᎧᎨᎩᎪᎫᎬᎭᎮᎯᾺΆῈΈῊΉῚΊῪΎῸΌῺΏꞍꞪꞫꞬꞭꞮꞳ"
    IN  {Char(chars, i) : i \in 1..Len(chars)}

\* the cased characters that are not case-ignorable, and the case-ignorable
\* characters (the Unicode properties Cased and Case_Ignorable), as far as a
\* string of this module can hold them: the two sets str.lower() reads
\* around a capital sigma
CasedChars ==
    LET chars == "ABCDEFGHIJKLMNOPQRSTUVWXYZabcdefghijklmnopqrstuvwxyzªµºÀÁÂÃÄ"
                 \o "ÅÆÇÈÉÊËÌÍÎÏÐÑÒÓÔÕÖØÙÚÛÜÝÞßàáâãäåæçèéêëìíîïðñòóôõöøùúûüýþÿƀƁƂ"
                 \o "ƃƄƅƆƇƈƉƊƋƌƍƎƏƐƑƒƓƔƕƖƗƘƙƚƛƜƝƞƟƠơƢƣƤƥƦƧƨƩƪƫƬƭƮƯưƱƲƳƴƵƶƷƸƹƺƼƽƾƿ"
                 \o "ǄǅǆǇǈǉǊǋǌǍǎǏǐǑǒǓǔǕǖǗǘǙǚǛǜǝǞǟǠǡǢǣǤǥǦǧǨǩǪǫǬǭǮǯǰǱǲǳǴǵǶǷǸǹǺǻǼǽǾǿ"
                 \o "ʀʁʂʃʄʅʆʇʈʉʊʋʌʍʎʏʐʑʒʓʕʖʗʘʙʚʛʜʝʞʟʠʡʢʣʤʥʦʧʨʩʪʫʬʭʮʯΆΈΉΊΌΎΏΐΑΒΓΔΕ"
                 \o "ΖΗΘΙΚΛΜΝΞΟΠΡΣΤΥΦΧΨΩΪΫάέήίΰαβγδεζηθικλμνξοπρςστυφχψωϊϋόύώϏϐϑϒ"
                 \o "ϓϔϕϖϗϘϙϚϛϜϝϞϟϠϡϢϣϤϥϦϧϨϩϪϫϬϭϮϯϰϱϲϳϴϵϷϸϹϺϻϼϽϾϿҀҁҊҋҌҍҎҏҐґҒғҔҕҖҗ"
                 \o "ҘҙҚқҜҝҞҟҠҡҢңҤҥҦҧҨҩҪҫҬҭҮүҰұҲҳҴҵҶҷҸҹҺһҼҽҾҿӀӁӂӃӄӅӆӇӈӉӊӋӌӍӎӏӐӑӒӓ"
                 \o "ӔӕӖӗӘәӚӛӜӝӞӟӠӡӢӣӤӥӦӧӨөӪӫӬӭӮӯӰӱӲӳӴӵӶӷӸӹӺӻӼӽӾӿրցւփքօֆևֈႠႡႢႣႤႥႦ"
                 \o "ႧႨႩႪႫႬႭႮႯႰႱႲႳႴႵႶႷႸႹႺႻႼႽႾႿჀჁჂჃჄჅჇჍაბგდევზთიკლმნოპჟრსტუფქღყშჩც"
                 \o "ძწჭხჯჰჱჲჳჴჵჶჷჸჹჺჽჾჿᎠᎡᎢᎣᎤᎥᎦᎧᎨᎩᎪᎫᎬᎭᎮᎯᎰᎱᎲᎳᎴᎵᎶᎷᎸᎹᎺᎻᎼᎽᎾᎿᏀᏁᏂᏃᏄᏅᏆᏇᏈ"
                 \o "ᏉᏊᏋᏌᏍᏎᏏᏐᏑᏒᏓᏔᏕᏖᏗᏘᏙᏚᏛᏜᏝᏞᏟᏠᏡᏢᏣᏤᏥᏦᏧᏨᏩᏪᏫᏬᏭᏮᏯᏰᏱᏲᏳᏴᏵᏸᏹᏺᏻᏼᏽᲀᲁᲂᲃᲄᲅᲆᲇᲈ"
                 \o "ᲐᲑᲒᲓᲔᲕᲖᲗᲘᲙᲚᲛᲜᲝᲞᲟᲠᲡᲢᲣᲤᲥᲦᲧᲨᲩᲪᲫᲬᲭᲮᲯᲰᲱᲲᲳᲴᲵᲶᲷᲸᲹᲺᲽᲾᲿᶀᶁᶂᶃᶄᶅᶆᶇᶈᶉᶊᶋᶌᶍ"
                 \o "ᶎᶏᶐᶑᶒᶓᶔᶕᶖᶗᶘᶙᶚẀẁẂẃẄẅẆẇẈẉẊẋẌẍẎẏẐẑẒẓẔẕẖẗẘẙẚẛẜẝẞẟẠạẢảẤấẦầẨẩẪẫẬậẮ"
                 \o "ắẰằẲẳẴẵẶặẸẹẺẻẼẽẾếỀềỂểỄễỆệỈỉỊịỌọỎỏỐốỒồỔổỖỗỘộỚớỜờỞởỠỡỢợỤụỦủỨứỪ"
                 \o "ừỬửỮữỰựỲỳỴỵỶỷỸỹỺỻỼỽỾỿᾀᾁᾂᾃᾄᾅᾆᾇᾈᾉᾊᾋᾌᾍᾎᾏᾐᾑᾒᾓᾔᾕᾖᾗᾘᾙᾚᾛᾜᾝᾞᾟᾠᾡᾢᾣᾤᾥᾦ"
                 \o "ᾧᾨᾩᾪᾫᾬᾭᾮᾯᾰᾱᾲᾳᾴᾶᾷᾸᾹᾺΆᾼιῂῃῄῆῇῈΈῊΉῌῐῑῒΐῖῗῘῙῚΊῠῡῢΰῤῥῦῧῨῩῪΎῬῲῳῴῶῷ"
                 \o "ῸΌῺΏῼↃↄⒶⒷⒸⒹⒺⒻⒼⒽⒾⒿⓀⓁⓂⓃⓄⓅⓆⓇⓈⓉⓊⓋⓌⓍⓎⓏⓐⓑⓒⓓⓔⓕⓖⓗⓘⓙⓚⓛⓜⓝⓞⓟⓠⓡⓢⓣⓤⓥⓦⓧⓨⓩⲀ"
                 \o "ⲁⲂⲃⲄⲅⲆⲇⲈⲉⲊⲋⲌⲍⲎⲏⲐⲑⲒⲓⲔⲕⲖⲗⲘⲙⲚⲛⲜⲝⲞⲟⲠⲡⲢⲣⲤⲥⲦⲧⲨⲩⲪⲫⲬⲭⲮⲯⲰⲱⲲⲳⲴⲵⲶⲷⲸⲹⲺⲻⲼ"
                 \o "ⲽⲾⲿⳀⳁⳂⳃⳄⳅⳆⳇⳈⳉⳊⳋⳌⳍⳎⳏⳐⳑⳒⳓⳔⳕⳖⳗⳘⳙⳚⳛⳜⳝⳞⳟⳠⳡⳢⳣⳤⳫⳬⳭⳮⳲⳳꚀꚁꚂꚃꚄꚅꚆꚇꚈꚉꚊꚋꚌꚍ"
                 \o "ꚎꚏꚐꚑꚒꚓꚔꚕꚖꚗꚘꚙꚚꚛꞀꞁꞂꞃꞄꞅꞆꞇꞋꞌꞍꞎꞐꞑꞒꞓꞔꞕꞖꞗꞘꞙꞚꞛꞜꞝꞞꞟꞠꞡꞢꞣꞤꞥꞦꞧꞨꞩꞪꞫꞬꞭꞮꞯꞰꞱ"
                 \o "ꞲꞳꞴꞵꞶꞷꞸꞹꞺꞻꞼꞽꞾꞿꟀꟁꟂꟃꟄꟅꟆꟇꟈꟉꟊꟐꟑꟓꟕꟖꟗꟘꟙꟵꟶꟺꮀꮁꮂꮃꮄꮅꮆꮇꮈꮉꮊꮋꮌꮍꮎꮏꮐꮑꮒꮓꮔꮕꮖꮗ"
                 \o "ꮘꮙꮚꮛꮜꮝꮞꮟꮠꮡꮢꮣꮤꮥꮦꮧꮨꮩꮪꮫꮬꮭꮮꮯꮰꮱꮲꮳꮴꮵꮶꮷꮸꮹꮺꮻꮼꮽꮾꮿ"
    IN  {Char(chars, i) : i \in 1..Len(chars)}
CaseIgnorableChars ==
    LET chars == "'.:^¨­¯´·¸ʰʱʲʳʴʵʶʷʸʹʺʻʼʽʾʿˀˁ˂˃˄˅ˆˇˈˉˊˋˌˍˎˏːˑ˒˓˔˕˖˗˘˙˚˛˜˝˞˟ˠˡ"
                 \o "ˢˣˤ˥˦˧˨˩˪˫ˬ˭ˮ˯˰˱˲˳˴˵˶˷˸˹˺˻˼˽˾˿΄΅·҃҄҅҆҇҈҉֑֖֛֢֣֤֚֒֓֔֕֗֘֙֜֝֞֟֠֡"
                 \o "ְֱֲֳִֵֶַָׇֹֺֻּֽֿׁׂ֥֦֧֪ׅ֭֮֨֩֫֬֯ׄ״ۖۗۘۙۚۛۜ۝ۣ۟۠ۡۢۤۥۦ۪ۭۧۨ۫۬ަާިީުޫ"
                 \o "ެޭޮޯް߲߫߬߭߮߯߰߱߳ߴߵߺ߽࢈࢐࢑࢙࢚࢛࢘࢜࢝࢞࢟ࣉ࣏࣐࣑࣒࣓࣊࣋࣌࣍࣎ࣔࣕࣖࣗࣘࣙࣚࣛࣜࣝࣞࣟ࣠࣡࣢ࣣࣦࣤࣥࣧ"
                 \o "ࣰࣱࣲࣩ࣭࣮࣯ࣶࣹࣺࣨ࣪࣫࣬ࣳࣴࣵࣷࣸࣻࣼࣽࣾࣿঁ়ুূৃৄ্ৢৣ৾ઁં઼ુૂૃૄૅેૈ્ૢૣૺૻૼ૽૾૿ஂீ்ಁ಼ಿೆ"
                 \o "ೌ್ೢೣඁ්ිීුූັິີຶື຺ຸູົຼໆ່້໊໋໌ໍ྄ཱྀྀྂྃ྆྇ྍྎྏྐྑྒྒྷྔྕྖྗྙྚྛྜྜྷྞྟྠྡྡྷྣྤྥྦྦྷ"
                 \o "ྨྩྪྫྫྷྭྮྯྰྱྲླྴྵྶྷྸྐྵྺྻྼ࿆ႂႅႆႍႝჼ឴឵ិីឹឺុូួំ៉៊់៌៍៎៏័៑្៓ៗ៝ᢅᢆᢩᪧ᪰᪱᪲᪳᪴"
                 \o "᪵᪶᪷᪸᪹᪺᪽᪻᪼᪾ᪿᫀ᫃᫄᫊᫁᫂᫅᫆᫇᫈᫉᫋ᫌᫍᫎᮀᮁᮢᮣᮤᮥᮨᮩ᮫ᮬᮭ᯦ᯨᯩᯭᯯᯰᯱ᳔᳕᳖᳗᳘᳙᳜᳝᳞᳟᳐᳑᳒᳚᳛᳠"
                 \o "᳢᳣᳤᳥᳦᳧᳨᳭᳴᳸᳹ᶛᶜᶝᶞᶟᶠᶡᶢᶣᶤᶥᶦᶧᶨᶩᶪᶫᶬᶭᶮᶯᶰᶱᶲᶳᶴᶵᶶᶷᶸᶹᶺᶻᶼᶽᶾᶿ᷂᷊᷀᷁᷃᷄᷅᷆᷇᷈᷉᷋"
                 \o "᷐᷎᷺᷏᷹᷽᷿᷷᷸᷌᷑᷒ᷓᷔᷕᷖᷗᷘᷙᷚᷛᷜᷝᷞᷟᷠᷡᷢᷣᷤᷥᷦᷧᷨᷩᷪᷫᷬᷭᷮᷯᷰᷱᷲᷳᷴ᷵᷻᷾᷶᷼᷍᾽᾿῀῁῍῎῏῝"
                 \o "῞῟῭΅`´῾ₐₑₒₓₔₕₖₗₘₙₚₛₜ⃒⃓⃘⃙⃚⃐⃑⃔⃕⃖⃗⃛⃜⃝⃞⃟⃠⃡⃢⃣⃤⃥⃦⃪⃫⃨⃬⃭⃮⃯⃧⃩⃰⳯⳰⳱ⷠⷡⷢⷣ"
                 \o "゙゚ⷤⷥⷦⷧⷨⷩⷪⷫⷬⷭⷮⷯⷰⷱⷲⷳⷴⷵⷶⷷⷸⷹⷺⷻⷼⷽⷾⷿ゛゜ゝゞーヽヾꓸꓹꓺꓻꓼꓽꚜꚝꚞꚟ꛰꛱ꞈ꞉꞊ꟲꟳꟴꟸꟹ꣄ꣅ꣠"
                 \o "꣡꣢꣣꣤꣥꣦꣧꣨꣩꣪꣫꣬꣭꣮꣯꣰꣱ꣿꦀꦁꦂ꦳ꦶꦷꦸꦹꦼꦽꧏꧥꧦꪴꪰꪲꪳꪷꪸꪾ꪿꫁ꫝꫬꫭꫳꫴ꫶ꯥꯨ꯭﮲﮳﮴﮵﮶﮷﮸﮹﮺﮻﮼"
                 \o "﮽﮾﮿﯀﯁﯂﻿ﾞﾟ￣￹￺￻"
    IN  {Char(chars, i) : i \in 1..Len(chars)}

\* s.lower().  The capital sigma gives the final sigma where it ends a word:
\* where a cased character stands before it and none after it, the
\* case-ignorable characters in between left aside; everywhere else it
\* gives the small sigma.  The value is left undefined on the characters
\* of UnloweredChars.
StrLower(s) ==
    LET Cased(from, to, j) ==
            /\ Char(s, j) \in CasedChars
            /\ \A k \in from..to : Char(s, k) \in CaseIgnorableChars
        FinalSigma(i) ==
            /\ \E j \in 1..(i - 1) : Cased(j + 1, i - 1, j)
            /\ ~\E j \in (i + 1)..Len(s) : Cased(i + 1, j - 1, j)
        Lower(i) ==
            IF Char(s, i) = "Σ"
            THEN IF FinalSigma(i) THEN "ς" ELSE "σ"
            ELSE IF Char(s, i) \in UpperChars
            THEN Char(LowerCase,
                      CHOOSE k \in 1..Len(UpperCase) : Char(UpperCase, k) = Char(s, i))
            ELSE IF Char(s, i) \in UnloweredChars
            THEN CHOOSE c \in {} : TRUE
            ELSE Char(s, i)
    IN  StrJoin("", [i \in 1..Len(s) |-> Lower(i)])

-----------------------------------------------------------------------------
(* generate_chunk_id (ingest.py:169-183)                                   *)

\* hashlib.md5(text.encode()).hexdigest(): the MD5 digests of the texts that
\* are hashed in this model, as hashlib computes them
MD5HexDigest(text) ==
    CASE text = "" -> "d41d8cd98f00b204e9800998ecf8427e"
      [] text = "a b" -> "0cc9cd4dd26c5137b675a0d819cb9ab0"
      [] text = "a b a b" -> "ca0ec9a8ae74b46616be8765cb4e51e2"
      [] text = "a b c d e. f" -> "9e9af2cbe30c0e4ef013a081644a3af8"
      [] text = "c d e." -> "ecffa261787e71026a54605727a368a1"
      [] text = "c. f." -> "c1f83ecada89dd95c9f936f801fae206"
      [] text = "hello" -> "5d41402abc4b2a76b9719d911017c592"
      [] text = "hello world" -> "5eb63bbbe01eeed093cb22bb8f5acdc3"

\* generate_chunk_id keeping the extension: Path(source).name for .stem
generate_chunk_id_keeping_suffix(source, chunk_index, text) ==
    PathName(source) \o "_" \o ToString(chunk_index) \o "_"
        \o SubSeq(MD5HexDigest(text), 1, 8)

\* generate_chunk_id (ingest.py:181-183) reads its three arguments and
\* nothing of the process: hashlib.md5 is not salted
generate_chunk_id(source, chunk_index, text) ==
    LET content_hash == SubSeq(MD5HexDigest(text), 1, 8)
        source_name == PathStem(source)
    IN  source_name \o "_" \o ToString(chunk_index) \o "_" \o content_hash

-----------------------------------------------------------------------------
(* Calls of generate_chunk_id, in any number and order                     *)

MaxChunkIndex == 2
MaxIdCalls == 3

IdSources == {"corpus/papers/2005.11401.pdf", ".hidden", "docs/README",
              "my_notes.v2.md"}
IdTexts == {"hello world", ""}

NoCall == [source |-> "", chunk_index |-> -1, text |-> "", result |-> ""]

MaxProcesses == 2

\* no call made: nothing remembered, in the first process
IdcIdle == [calls |-> 0, process |-> 1, last |-> NoCall, remembered |-> NoCall,
            intervening |-> FALSE, restarted |-> FALSE]

SameArguments(c1, c2) ==
    /\ c1.source = c2.source
    /\ c1.chunk_index = c2.chunk_index
    /\ c1.text = c2.text

\* One call.  The caller keeps the result of each call in last, and may keep
\* the result of any one earlier call in remembered (an id that was stored);
\* intervening tells that a call with other arguments was made since the
\* remembered one, restarted that the process was restarted since.
GenerateChunkId ==
    /\ idc.calls < MaxIdCalls
    /\ \E source \in IdSources, chunk_index \in 0..MaxChunkIndex, text \in IdTexts,
          remember \in BOOLEAN :
        LET call == [source |-> source, chunk_index |-> chunk_index, text |-> text,
                     result |-> generate_chunk_id(source, chunk_index, text)]
        IN  idc' = [calls |-> idc.calls + 1,
                    process |-> idc.process,
                    last |-> call,
                    remembered |-> IF remember THEN call ELSE idc.remembered,
                    intervening |->
                        IF remember THEN FALSE
                        ELSE idc.intervening
                             \/ (idc.remembered # NoCall
                                 /\ ~SameArguments(idc.remembered, call)),
                    restarted |-> IF remember THEN FALSE ELSE idc.restarted]
    /\ UNCHANGED <<ct, fs, reingest, dir, up, fetch, chroma, collection, last>>

\* The program ends and is started again: what the caller kept of the last
\* call is gone with the process, a stored id is still there.
RestartProcess ==
    /\ idc.process < MaxProcesses
    /\ idc' = [idc EXCEPT !.process = @ + 1, !.last = NoCall,
                          !.restarted = idc.remembered # NoCall]
    /\ UNCHANGED <<ct, fs, reingest, dir, up, fetch, chroma, collection, last>>

-----------------------------------------------------------------------------
(* load_document and ingest_document (ingest.py:59-82, 186-225)            *)

\* The format loaders (load_pdf, load_markdown, load_html, load_text) read
\* the file and extract its text, or raise.  files[path] is what the loader
\* of path yields: [ok |-> TRUE, text |-> the extracted text], or
\* [ok |-> FALSE, ...] when reading or parsing raises.
load_document(files, file_path) ==
    LET dispatch(suffix) ==
            CASE suffix = ".pdf" -> "paper"
              [] suffix \in {".md", ".markdown"} -> "framework"
              [] suffix = ".html" -> "framework"
              [] suffix = ".txt" -> "guide"
              [] OTHER -> "none"
        load(doc_type) ==
            IF doc_type = "none"
            THEN [ok |-> FALSE, error |-> "ValueError", text |-> "", doc_type |-> "none"]
            ELSE IF ~files[file_path].ok
            THEN [ok |-> FALSE, error |-> "ExtractionFailure", text |-> "",
                  doc_type |-> doc_type]
            ELSE [ok |-> TRUE, error |-> "none", text |-> files[file_path].text,
                  doc_type |-> doc_type]
    IN  load(dispatch(StrLower(PathSuffix(file_path))))

\* ingest_document: the records of one document, or the loader's exception
ingest_document(files, file_path, chunk_size, overlap_ratio) ==
    LET record(chunk, idx, source, doc_type, chunk_id) ==
            [text |-> chunk,
             metadata |-> [source |-> source, doc_type |-> doc_type,
                           chunk_index |-> ToString(idx), chunk_id |-> chunk_id],
             id |-> chunk_id]
        records(chunks, source, doc_type) ==
            [i \in 1..Len(chunks) |->
                record(chunks[i], i - 1, source, doc_type,
                       generate_chunk_id(source, i - 1, chunks[i]))]
        ingest(loaded) ==
            IF ~loaded.ok
            THEN [ok |-> FALSE, error |-> loaded.error, records |-> <<>>]
            ELSE [ok |-> TRUE, error |-> "none",
                  records |-> records(chunk_text(loaded.text, chunk_size, overlap_ratio),
                                      PathName(file_path), loaded.doc_type)]
    IN  ingest(load_document(files, file_path))

-----------------------------------------------------------------------------
(* The corpus files that are explored                                      *)

\* CHUNK_SIZE (config.py:14) and the default chunk_size (ingest.py:188)
CHUNK_SIZE == 512

\* the default overlap_ratio 0.1 (ingest.py:189); int(512 * 0.1) = 512 \div 10
CHUNK_OVERLAP == <<1, 10>>

\* the (chunk_size, overlap_ratio) pairs documents are ingested with
IngestParams == {<<CHUNK_SIZE, CHUNK_OVERLAP>>, <<2, <<1, 2>>>>}

\* the texts the loaders extract
DocTexts == {"hello", "a b\n\na b", "a b\n\nc d e. f"}

FileStates == {[ok |-> FALSE, text |-> ""]} \cup {[ok |-> TRUE, text |-> t] : t \in DocTexts}

\* the files under the corpus directory
CorpusPaths == {"papers/intro.pdf", "frameworks/intro.md",
                "frameworks/guide.TXT", "frameworks/notes.docx"}

\* the directories that hold them: rglob('*') yields them as well
\* (ingest.py:252), and reading one as a document raises
CorpusDirectories == {"papers", "frameworks"}

\* the entries whose content varies (the guide is unreadable or holds the
\* longest text); the others are fixed
VaryingPaths == {"papers/intro.pdf", "frameworks/intro.md", "frameworks/guide.TXT"}

\* what rglob('*') finds under the corpus directory, with what the loader
\* of each entry yields
CorpusFileSystems ==
    {[p \in CorpusPaths \cup CorpusDirectories |->
         IF p \in VaryingPaths THEN f[p]
         ELSE IF p \in CorpusDirectories THEN [ok |-> FALSE, text |-> ""]
         ELSE [ok |-> TRUE, text |-> "hello"]] :
        f \in {g \in [VaryingPaths -> FileStates] :
                   g["frameworks/guide.TXT"].text \in {"", "a b\n\nc d e. f"}}}

\* the default extensions (ingest.py:246-247)
DefaultExtensions == {".pdf", ".md", ".markdown", ".html", ".txt"}

ExtensionLists == {DefaultExtensions, {".pdf"}, {".md", ".docx"}}

-----------------------------------------------------------------------------
(* ingest_directory (ingest.py:228-263) as a state machine: one step per   *)
(* entry of rglob('*'), whose order the file system decides                *)


DirStart(extensions, params) ==
    [pc |-> "walk", extensions |-> extensions,
     chunk_size |-> params[1], overlap_ratio |-> params[2],
     pending |-> DOMAIN fs, visited |-> <<>>,
     all_chunks |-> <<>>, printed |-> <<>>, raised |-> FALSE]

\* the entries rglob('*') can yield next: it walks the tree from the top, so
\* a directory is yielded before what it holds, in the order of the file
\* system otherwise
DirNext ==
    {p \in dir.pending :
        \A d \in dir.pending :
            ~(Len(p) > Len(d) + 1 /\ SubSeq(p, 1, Len(d) + 1) = d \o "/")}

DirSelected(file_path) == StrLower(PathSuffix(file_path)) \in dir.extensions

DirIngest(file_path) ==
    ingest_document(fs, file_path, dir.chunk_size, dir.overlap_ratio)

\* ingest.py:253-254: an entry whose extension is not wanted is passed over
DirSkip ==
    /\ dir.pc = "walk"
    /\ \E file_path \in DirNext :
        /\ ~DirSelected(file_path)
        /\ dir' = [dir EXCEPT !.pending = @ \ {file_path},
                              !.visited = Append(@, file_path)]
    /\ UNCHANGED <<ct, idc, fs, reingest, up, fetch, chroma, collection, last>>

\* ingest.py:256-259: the records of the file are appended
DirIngestOk ==
    /\ dir.pc = "walk"
    /\ \E file_path \in DirNext :
        \E ingested \in {DirIngest(file_path)} :
            /\ DirSelected(file_path)
            /\ ingested.ok
            /\ dir' = [dir EXCEPT
                         !.pending = @ \ {file_path},
                         !.visited = Append(@, file_path),
                         !.all_chunks = @ \o ingested.records,
                         !.printed = Append(@, [kind |-> "ingested",
                                                name |-> PathName(file_path),
                                                count |-> Len(ingested.records)])]
    /\ UNCHANGED <<ct, idc, fs, reingest, up, fetch, chroma, collection, last>>

\* DirIngestFailed without the try/except: the exception leaves the call
DirIngestFailedUncaught ==
    /\ dir.pc = "walk"
    /\ \E file_path \in DirNext :
        /\ DirSelected(file_path)
        /\ ~DirIngest(file_path).ok
        /\ dir' = [dir EXCEPT !.pc = "done", !.raised = TRUE,
                              !.visited = Append(@, file_path)]
    /\ UNCHANGED <<ct, idc, fs, reingest, up, fetch, chroma, collection, last>>

\* ingest.py:260-261: the exception is caught and the failure printed
DirIngestFailed ==
    /\ dir.pc = "walk"
    /\ \E file_path \in DirNext :
        /\ DirSelected(file_path)
        /\ ~DirIngest(file_path).ok
        /\ dir' = [dir EXCEPT
                     !.pending = @ \ {file_path},
                     !.visited = Append(@, file_path),
                     !.printed = Append(@, [kind |-> "failed",
                                            name |-> PathName(file_path),
                                            count |-> 0])]
    /\ UNCHANGED <<ct, idc, fs, reingest, up, fetch, chroma, collection, last>>

\* ingest.py:263: every entry visited, the list is returned
DirReturn ==
    /\ dir.pc = "walk"
    /\ dir.pending = {}
    /\ dir' = [dir EXCEPT !.pc = "done"]
    /\ UNCHANGED <<ct, idc, fs, reingest, up, fetch, chroma, collection, last>>

-----------------------------------------------------------------------------
(* The embedding model and the ChromaDB collection (collaborators)         *)

\* embed(texts) (embed.py:64-77): one vector per text, in order.  The model
\* is a black box; the vector of a text is represented by the text it was
\* computed from.
EmbeddingOf(text) == <<"embedding", text>>
embed(texts) == [i \in 1..Len(texts) |-> EmbeddingOf(texts[i])]

\* metadata.get(key, default)
MetaGet(metadata, key, default) ==
    IF key \in DOMAIN metadata THEN metadata[key] ELSE default

\* The collection is a bag of rows [id, document, embedding, metadata].
RowsWithId(coll, id) == {r \in BagToSet(coll) : r.id = id}

WithoutIds(coll, ids) ==
    LET kept == {r \in BagToSet(coll) : r.id \notin ids}
    IN  [r \in kept |-> coll[r]]

InsertRow(coll, row) == coll (+) SetToBag({row})

HasDuplicateIds(rows) ==
    \E i, j \in 1..Len(rows) : i # j /\ rows[i].id = rows[j].id

\* the rows of a batch written one after the other, each replacing the rows
\* that have its id
RECURSIVE UpsertRows(_, _)
UpsertRows(coll, rows) ==
    IF rows = <<>> THEN coll
    ELSE UpsertRows(InsertRow(WithoutIds(coll, {Head(rows).id}), Head(rows)),
                    Tail(rows))

\* the rows of a batch inserted, those whose id is stored being passed over
RECURSIVE InsertNewRows(_, _)
InsertNewRows(coll, rows) ==
    IF rows = <<>> THEN coll
    ELSE InsertNewRows(IF RowsWithId(coll, Head(rows).id) = {}
                       THEN InsertRow(coll, Head(rows)) ELSE coll,
                       Tail(rows))

\* chroma.dropped: client.delete_collection has dropped the collection that
\* self.collection still refers to (store.py:86-88); the batch and the
\* n_results are validated before the collection is reached, which then
\* raises, under a name that differs between the releases of chromadb.

\* collection.upsert (called at store.py:110-115).  chromadb rejects a batch
\* that names an id twice; releases that do not let the last one win.
CollectionUpsert(coll, rows) ==
    IF HasDuplicateIds(rows) /\ chroma.duplicates_in_batch = "raise"
    THEN [error |-> "DuplicateIDError", rows |-> coll]
    ELSE IF chroma.dropped THEN [error |-> "NotFoundError", rows |-> coll]
    ELSE [error |-> "none", rows |-> UpsertRows(coll, rows)]

\* collection.add (called at store.py:48-53): plain insert.  A batch that names
\* an id twice is rejected; for an id that is already stored, chromadb either
\* raises and writes nothing or passes the row over, depending on the release.
CollectionAdd(coll, rows) ==
    IF HasDuplicateIds(rows)
    THEN [error |-> "DuplicateIDError", rows |-> coll]
    ELSE IF chroma.dropped THEN [error |-> "NotFoundError", rows |-> coll]
    ELSE IF (\E i \in 1..Len(rows) : RowsWithId(coll, rows[i].id) # {})
            /\ chroma.existing_on_add = "raise"
    THEN [error |-> "IDAlreadyExistsError", rows |-> coll]
    ELSE [error |-> "none", rows |-> InsertNewRows(coll, rows)]

\* collection.get(where={"source": {"$eq": source}}) (store.py:125-126)
CollectionGetIdsBySource(coll, source) ==
    {r.id : r \in {q \in BagToSet(coll) : MetaGet(q.metadata, "source", <<>>) = source}}

\* collection.delete(ids) (store.py:129)
CollectionDelete(coll, ids) == WithoutIds(coll, ids)

\* collection.count() (store.py:80)
CollectionCount(coll) == BagCardinality(coll)

\* collection.query (store.py:70-74): n_results below 1 is rejected; else the
\* n_results nearest rows are returned in rank order, all rows when there are
\* fewer.  ranking is the order by distance to the query embedding, which the
\* index decides.
CollectionQuery(coll, query_embedding, n_results, ranking) ==
    IF n_results <= 0
    THEN [error |-> "InvalidArgument", result |-> <<>>]
    ELSE IF chroma.dropped THEN [error |-> "NotFoundError", result |-> <<>>]
    ELSE [error |-> "none", result |-> FirstN(ranking, n_results)]

\* the orders in which the index may rank the rows
Rankings(coll) ==
    LET rows == BagToSet(coll)
        n == Cardinality(rows)
    IN  {f \in [1..n -> rows] : \A i, j \in 1..n : i # j => f[i] # f[j]}

-----------------------------------------------------------------------------
(* ChromaStore (store.py:10-129) and the module functions (store.py:144-159) *)

\* what a store method did: the exception it raised ("none" when it
\* returned), the rows of the collection afterwards, the batches it passed
\* to embed, the n_results it passed to the index, the collection methods it
\* wrote through, and what it returned
Outcome(error, rows, embed_calls, index_queries, writes, result) ==
    [error |-> error, rows |-> rows, embed_calls |-> embed_calls,
     index_queries |-> index_queries, writes |-> writes, result |-> result]

Texts(chunks) == [i \in 1..Len(chunks) |-> chunks[i].text]

\* store.py:43-45, 105-107: ids, documents, embeddings and metadatas, aligned
RowsOf(chunks, embeddings) ==
    [i \in 1..Len(chunks) |->
        [id |-> chunks[i].id, document |-> chunks[i].text,
         embedding |-> embeddings[i], metadata |-> chunks[i].metadata]]

\* add_chunks embedding and adding the records one by one, the embedding
\* failing at the last record
add_chunks_one_by_one(coll, chunks, embed_ok) ==
    LET firsts == SubSeq(chunks, 1, Len(chunks) - 1)
        partly == CollectionAdd(coll, RowsOf(firsts, embed(Texts(firsts))))
        wholly == CollectionAdd(coll, RowsOf(chunks, embed(Texts(chunks))))
    IN  IF chunks = <<>> THEN Outcome("none", coll, <<>>, <<>>, <<>>, <<>>)
        ELSE IF ~embed_ok
        THEN Outcome("EmbeddingFailure", partly.rows, <<Texts(chunks)>>, <<>>,
                     IF firsts = <<>> THEN <<>> ELSE <<"add">>, <<>>)
        ELSE Outcome(wholly.error, wholly.rows, <<Texts(chunks)>>, <<>>, <<"add">>, <<>>)

\* ChromaStore.add_chunks (store.py:28-53); embed_ok: embed() does not raise
add_chunks(coll, chunks, embed_ok) ==
    IF chunks = <<>> THEN Outcome("none", coll, <<>>, <<>>, <<>>, <<>>)
    ELSE IF ~embed_ok
    THEN Outcome("EmbeddingFailure", coll, <<Texts(chunks)>>, <<>>, <<>>, <<>>)
    ELSE LET written == CollectionAdd(coll, RowsOf(chunks, embed(Texts(chunks))))
         IN  Outcome(written.error, written.rows, <<Texts(chunks)>>, <<>>,
                     <<"add">>, <<>>)

\* upsert_chunks writing through collection.add
upsert_chunks_by_add(coll, chunks, embed_ok) == add_chunks(coll, chunks, embed_ok)

\* upsert_chunks inserting the rows without replacing the stored ones
upsert_chunks_by_insert(coll, chunks, embed_ok) ==
    LET RECURSIVE InsertAll(_, _)
        InsertAll(c, rows) ==
            IF rows = <<>> THEN c ELSE InsertAll(InsertRow(c, Head(rows)), Tail(rows))
    IN  IF chunks = <<>> \/ ~embed_ok THEN add_chunks(coll, <<>>, embed_ok)
        ELSE Outcome("none", InsertAll(coll, RowsOf(chunks, embed(Texts(chunks)))),
                     <<Texts(chunks)>>, <<>>, <<"upsert">>, <<>>)

\* upsert_chunks embedding every record in a call of its own
upsert_chunks_embedding_each(coll, chunks, embed_ok) ==
    LET each == [i \in 1..Len(chunks) |-> <<chunks[i].text>>]
    IN  IF chunks = <<>> THEN Outcome("none", coll, <<>>, <<>>, <<>>, <<>>)
        ELSE IF ~embed_ok
        THEN Outcome("EmbeddingFailure", coll, <<each[1]>>, <<>>, <<>>, <<>>)
        ELSE LET written == CollectionUpsert(coll, RowsOf(chunks, embed(Texts(chunks))))
             IN  Outcome(written.error, written.rows, each, <<>>, <<"upsert">>, <<>>)

\* ChromaStore.upsert_chunks (store.py:90-115)
upsert_chunks(coll, chunks, embed_ok) ==
    IF chunks = <<>> THEN Outcome("none", coll, <<>>, <<>>, <<>>, <<>>)
    ELSE IF ~embed_ok
    THEN Outcome("EmbeddingFailure", coll, <<Texts(chunks)>>, <<>>, <<>>, <<>>)
    ELSE LET written == CollectionUpsert(coll, RowsOf(chunks, embed(Texts(chunks))))
         IN  Outcome(written.error, written.rows, <<Texts(chunks)>>, <<>>,
                     <<"upsert">>, <<>>)

\* delete_by_source deleting the rows of every other source
delete_by_source_others(coll, source) ==
    LET ids == {r.id : r \in BagToSet(coll)} \ CollectionGetIdsBySource(coll, source)
    IN  IF chroma.dropped
        THEN Outcome("NotFoundError", coll, <<>>, <<>>, <<>>, <<>>)
        ELSE Outcome("none", CollectionDelete(coll, ids), <<>>, <<>>, <<"delete">>, <<>>)

\* ChromaStore.delete_by_source (store.py:117-129): collection.get raises on a
\* dropped collection; collection.delete is called only when ids were found
delete_by_source(coll, source) ==
    LET ids == CollectionGetIdsBySource(coll, source)
    IN  IF chroma.dropped
        THEN Outcome("NotFoundError", coll, <<>>, <<>>, <<>>, <<>>)
        ELSE IF ids # {}
        THEN Outcome("none", CollectionDelete(coll, ids), <<>>, <<>>, <<"delete">>, <<>>)
        ELSE Outcome("none", coll, <<>>, <<>>, <<>>, <<>>)

\* ChromaStore.query (store.py:55-76): the query is embedded, then the index
\* is queried; the result lists are those of the single query
query(coll, query_text, top_k, embed_ok, ranking) ==
    IF ~embed_ok
    THEN Outcome("EmbeddingFailure", coll, <<<<query_text>>>>, <<>>, <<>>, <<>>)
    ELSE LET found == CollectionQuery(coll, embed(<<query_text>>)[1], top_k, ranking)
         IN  Outcome(found.error, coll, <<<<query_text>>>>, <<top_k>>, <<>>,
                     [ids |-> [i \in 1..Len(found.result) |-> found.result[i].id],
                      documents |->
                          [i \in 1..Len(found.result) |-> found.result[i].document],
                      metadatas |->
                          [i \in 1..Len(found.result) |-> found.result[i].metadata]])

\* ChromaStore.get_collection_stats (store.py:78-84); error: what
\* collection.count() raised, "none" when the statistics were returned
get_collection_stats(coll) ==
    [error |-> IF chroma.dropped THEN "NotFoundError" ELSE "none",
     collection_name |-> "ragrag_docs",
     total_documents |-> IF chroma.dropped THEN 0 ELSE CollectionCount(coll)]

\* ChromaStore.delete_collection (store.py:86-88): client.delete_collection
\* is called in either case; it drops the collection of that name with all
\* its rows, or raises when there is none
delete_collection(coll) ==
    IF chroma.dropped
    THEN Outcome("NotFoundError", coll, <<>>, <<>>, <<"delete_collection">>, <<>>)
    ELSE Outcome("none", EmptyBag, <<>>, <<>>, <<"delete_collection">>, <<>>)

\* retrieve (retrieve.py:25-47): the store is queried and the lists unpacked
retrieve(coll, query_text, top_k, embed_ok, ranking) ==
    LET queried == query(coll, query_text, top_k, embed_ok, ranking)
    IN  IF queried.error # "none" THEN queried
        ELSE [queried EXCEPT !.result = [documents |-> queried.result.documents,
                                         metadatas |-> queried.result.metadatas]]

\* the blocks of format_context for the results from position i on
\* (retrieve.py:64-70)
RECURSIVE ContextBlocks(_, _, _)
ContextBlocks(results, include_sources, i) ==
    IF i > Min(Len(results.documents), Len(results.metadatas)) THEN <<>>
    ELSE <<IF include_sources
           THEN "[" \o ToString(i) \o "] (Source: "
                \o MetaGet(results.metadatas[i], "source", "unknown") \o ")\n"
                \o results.documents[i]
           ELSE results.documents[i]>>
         \o ContextBlocks(results, include_sources, i + 1)

\* format_context without the numbered source lines
format_context_bare(results, include_sources) ==
    StrJoin("\n\n---\n\n", ContextBlocks(results, FALSE, 1))

\* format_context (retrieve.py:50-72)
format_context(results, include_sources) ==
    IF results.documents = <<>> THEN ""
    ELSE StrJoin("\n\n---\n\n", ContextBlocks(results, include_sources, 1))

\* retrieve_and_format (retrieve.py:75-88)
retrieve_and_format(coll, query_text, top_k, embed_ok, ranking) ==
    LET format(retrieved) ==
            IF retrieved.error # "none" THEN retrieved
            ELSE [retrieved EXCEPT !.result = [context |-> format_context(@, TRUE),
                                               results |-> @]]
    IN  format(retrieve(coll, query_text, top_k, embed_ok, ranking))

-----------------------------------------------------------------------------
(* The store operations as actions                                         *)

MaxBatch == 2
MaxTopK == 2

\* records a caller may write: two versions of the chunk x, and two others
RecordPool ==
    {[id |-> "x", text |-> "alpha",
      metadata |-> [source |-> "paper.pdf", doc_type |-> "paper"]],
     [id |-> "x", text |-> "beta",
      metadata |-> [source |-> "other.pdf", doc_type |-> "guide"]],
     [id |-> "y", text |-> "gamma",
      metadata |-> [source |-> "paper.pdf", doc_type |-> "paper"]],
     [id |-> "z", text |-> "alpha",
      metadata |-> [source |-> "other.pdf", doc_type |-> "guide"]]}

Batches == UNION {[1..n -> RecordPool] : n \in 0..MaxBatch}

Sources == {"paper.pdf", "other.pdf", "missing.pdf"}

ChromaBehaviours ==
    [existing_on_add : {"skip", "raise"}, duplicates_in_batch : {"raise", "last_wins"},
     dropped : {FALSE}]

NoOp == [op |-> "none", arg |-> <<>>, error |-> "none", embed_calls |-> <<>>,
         index_queries |-> <<>>, writes |-> <<>>, result |-> <<>>,
         before |-> EmptyBag, prev |-> <<"other", <<>>, "none">>]

\* The operation op(arg) with outcome out is the last one.  before is the
\* collection it started from; prev is the operation before it when that was
\* a re-ingestion or the upsert of a fetched item (its name, argument and
\* exception).
Did(op, arg, out) ==
    /\ collection' = out.rows
    /\ last' = [op |-> op, arg |-> arg, error |-> out.error,
                embed_calls |-> out.embed_calls, index_queries |-> out.index_queries,
                writes |-> out.writes, result |-> out.result,
                before |-> collection,
                prev |-> IF last.op \in {"ingest_upsert", "adapter_upsert"}
                         THEN <<last.op, last.arg, last.error>>
                         ELSE <<"other", <<>>, "none">>]

AddChunks ==
    /\ \E chunks \in Batches, embed_ok \in BOOLEAN :
           Did("add_chunks", chunks, add_chunks(collection, chunks, embed_ok))
    /\ UNCHANGED <<ct, idc, fs, reingest, dir, up, fetch, chroma>>

UpsertChunks ==
    /\ \E chunks \in Batches, embed_ok \in BOOLEAN :
           Did("upsert_chunks", chunks, upsert_chunks(collection, chunks, embed_ok))
    /\ UNCHANGED <<ct, idc, fs, reingest, dir, up, fetch, chroma>>

DeleteBySource ==
    /\ \E source \in Sources :
           Did("delete_by_source", source, delete_by_source(collection, source))
    /\ UNCHANGED <<ct, idc, fs, reingest, dir, up, fetch, chroma>>

Query ==
    /\ \E top_k \in -1..MaxTopK, embed_ok \in BOOLEAN, ranking \in Rankings(collection) :
           Did("query", <<"what is alpha", top_k>>,
               query(collection, "what is alpha", top_k, embed_ok, ranking))
    /\ UNCHANGED <<ct, idc, fs, reingest, dir, up, fetch, chroma>>

Retrieve ==
    /\ \E top_k \in -1..MaxTopK, embed_ok \in BOOLEAN, ranking \in Rankings(collection) :
           Did("retrieve", <<"what is alpha", top_k>>,
               retrieve(collection, "what is alpha", top_k, embed_ok, ranking))
    /\ UNCHANGED <<ct, idc, fs, reingest, dir, up, fetch, chroma>>

\* ChromaStore.delete_collection()
DeleteCollection ==
    /\ Did("delete_collection", <<>>, delete_collection(collection))
    /\ chroma' = [chroma EXCEPT !.dropped = TRUE]
    /\ UNCHANGED <<ct, idc, fs, reingest, dir, up, fetch>>

\* ChromaStore() in a new process (store.py:13-26): get_or_create_collection
\* opens the collection of that name, creating it empty when it was dropped
NewChromaStore ==
    /\ Did("ChromaStore", <<>>, Outcome("none", collection, <<>>, <<>>, <<>>, <<>>))
    /\ chroma' = [chroma EXCEPT !.dropped = FALSE]
    /\ UNCHANGED <<ct, idc, fs, reingest, dir, up, fetch>>

RetrieveAndFormat ==
    /\ \E top_k \in -1..MaxTopK, embed_ok \in BOOLEAN, ranking \in Rankings(collection) :
           Did("retrieve_and_format", <<"what is alpha", top_k>>,
               retrieve_and_format(collection, "what is alpha", top_k, embed_ok, ranking))
    /\ UNCHANGED <<ct, idc, fs, reingest, dir, up, fetch, chroma>>

-----------------------------------------------------------------------------
(* Re-ingestion of a document into the store                               *)

\* the document that is ingested again and again
ReingestPaths == {"docs/guide.md"}

\* no chunks are held by a caller of ingest_document
NotIngested == [held |-> FALSE, arg |-> <<>>, records |-> <<>>]

\* ingest_document reads the document and returns its chunks to the caller
\* (ingest.py:186-225), which holds them until it upserts them; arg is the
\* path, the chunking parameters and the text that was read.  A loader that
\* raises leaves the caller with nothing to upsert.
IngestDocument ==
    /\ ~reingest.held
    /\ \E file_path \in ReingestPaths, params \in IngestParams :
        \E read \in {ingest_document(fs, file_path, params[1], params[2])} :
            IF read.ok
            THEN /\ reingest' = [held |-> TRUE,
                                 arg |-> <<file_path, params, fs[file_path].text>>,
                                 records |-> read.records]
                 /\ UNCHANGED <<collection, last>>
            ELSE /\ reingest' = NotIngested
                 /\ Did("ingest_document", <<file_path, params>>,
                        Outcome(read.error, collection, <<>>, <<>>, <<>>, <<>>))
    /\ UNCHANGED <<ct, idc, fs, dir, up, fetch, chroma>>

\* the caller passes the chunks it holds to upsert_chunks (store.py:90-115):
\* they are the chunks of the document as it was when it was read
UpsertIngested ==
    /\ reingest.held
    /\ \E embed_ok \in BOOLEAN :
           Did("ingest_upsert", reingest.arg,
               upsert_chunks(collection, reingest.records, embed_ok))
    /\ reingest' = NotIngested
    /\ UNCHANGED <<ct, idc, fs, dir, up, fetch, chroma>>

\* the document is edited, or becomes unreadable, at any moment: also between
\* its being read and the upsert of what was read
WriteFile ==
    /\ \E file_path \in ReingestPaths, content \in FileStates :
        /\ fs[file_path] # content
        /\ fs' = [fs EXCEPT ![file_path] = content]
    /\ UNCHANGED <<ct, idc, reingest, dir, up, fetch, chroma, collection, last>>

\* the records of the document are deleted
DeleteDocument ==
    /\ \E file_path \in ReingestPaths :
           Did("delete_by_source", PathName(file_path),
               delete_by_source(collection, PathName(file_path)))
    /\ UNCHANGED <<ct, idc, fs, reingest, dir, up, fetch, chroma>>

\* the stores re-ingestion may start from: empty, or holding a record of
\* another source
StartingStores ==
    {EmptyBag} \cup
    {UpsertRows(EmptyBag, RowsOf(<<r>>, embed(<<r.text>>))) :
        r \in {q \in RecordPool : q.id = "z"}}

-----------------------------------------------------------------------------
(* Paper summaries and their upgrade to full PDFs (semantic_scholar.py)    *)

\* the decimal digits int() reads, as far as a string of this module can
\* hold them: those of ASCII, then those of the other scripts, each script
\* from its 0 to its 9
Digits ==
    "0123456789۰۱۲۳۴۵۶۷۸۹߀߁߂߃߄߅߆߇߈߉০১২৩৪৫৬৭৮৯૦૧૨૩૪૫૬૭૮૯௦௧௨௩௪௫௬௭௮௯"
    \o "೦೧೨೩೪೫೬೭೮೯෦෧෨෩෪෫෬෭෮෯໐໑໒໓໔໕໖໗໘໙႐႑႒႓႔႕႖႗႘႙០១២៣៤៥៦៧៨៩᧐᧑᧒᧓᧔᧕᧖᧗᧘᧙"
    \o "᪀᪁᪂᪃᪄᪅᪆᪇᪈᪉᪐᪑᪒᪓᪔᪕᪖᪗᪘᪙᮰᮱᮲᮳᮴᮵᮶᮷᮸᮹꣐꣑꣒꣓꣔꣕꣖꣗꣘꣙꧐꧑꧒꧓꧔꧕꧖꧗꧘꧙꧰꧱꧲꧳꧴꧵꧶꧷꧸꧹"
    \o "꯰꯱꯲꯳꯴꯵꯶꯷꯸꯹"

DigitValue(c) == ((CHOOSE i \in 1..Len(Digits) : Char(Digits, i) = c) - 1) % 10

\* the value of a string of decimal digits
RECURSIVE DigitsValue(_)
DigitsValue(s) ==
    IF Len(s) = 0 THEN 0
    ELSE 10 * DigitsValue(SubSeq(s, 1, Len(s) - 1)) + DigitValue(Char(s, Len(s)))

\* the whitespace int() passes over at both ends: that of str.strip() but
\* for U+001C..U+001F
IntSpaces == Whitespace \ {"", "", "", ""}

RECURSIVE IntStrip(_)
IntStrip(s) ==
    IF s # "" /\ Char(s, 1) \in IntSpaces THEN IntStrip(SubSeq(s, 2, Len(s)))
    ELSE IF s # "" /\ Char(s, Len(s)) \in IntSpaces
    THEN IntStrip(SubSeq(s, 1, Len(s) - 1))
    ELSE s

\* what int(s) reads once s is stripped of whitespace and of one sign
IntBody(s) ==
    LET t == IntStrip(s)
    IN  IF t # "" /\ Char(t, 1) \in {"+", "-"} THEN SubSeq(t, 2, Len(t)) ELSE t

\* int(s) raises ValueError: the body is empty or is not made of decimal
\* digits with single underscores between them
PyIntRaises(s) ==
    LET b == IntBody(s)
    IN  \/ b = ""
        \/ \E i \in 1..Len(b) :
               /\ Char(b, i) # "_"
               /\ \A d \in 1..Len(Digits) : Char(Digits, d) # Char(b, i)
        \/ Char(b, 1) = "_" \/ Char(b, Len(b)) = "_"
        \/ \E i \in 1..(Len(b) - 1) : Char(b, i) = "_" /\ Char(b, i + 1) = "_"

\* int(s) where it does not raise
PyInt(s) ==
    LET t == IntStrip(s)
        digits == StrJoin("", StrSplit(IntBody(s), "_"))
    IN  IF Char(t, 1) = "-" THEN 0 - DigitsValue(digits) ELSE DigitsValue(digits)

\* s.replace(old, new)
StrReplace(s, old, new) == StrJoin(new, StrSplit(s, old))

\* paper_to_chunk (semantic_scholar.py:122-186)
paper_to_chunk(paper) ==
    LET title == MetaGet(paper, "title", "Unknown Title")
        authors == MetaGet(paper, "authors", <<>>)
        names == StrJoin(", ", [i \in 1..Len(FirstN(authors, 5)) |->
                                   MetaGet(authors[i], "name", "")])
        author_names == IF Len(authors) > 5
                        THEN names \o " et al. (" \o ToString(Len(authors)) \o " authors)"
                        ELSE names
        year == IF "year" \in DOMAIN paper THEN ToString(paper.year) ELSE "N/A"
        citations == ToString(MetaGet(paper, "citationCount", 0))
        arxiv_id == MetaGet(MetaGet(paper, "externalIds", <<>>), "ArXiv", "")
        tldr == MetaGet(paper, "tldr", <<>>)
        abstract == MetaGet(paper, "abstract", "")
        parts == <<"Title: " \o title>>
                 \o (IF authors # <<>> THEN <<"Authors: " \o author_names>> ELSE <<>>)
                 \o <<"Year: " \o year \o " | Citations: " \o citations>>
                 \o (IF arxiv_id # "" THEN <<"ArXiv: " \o arxiv_id>> ELSE <<>>)
                 \o (IF tldr # <<>> /\ MetaGet(tldr, "text", "") # ""
                     THEN <<"Summary: " \o tldr.text>> ELSE <<>>)
                 \o (IF abstract # "" THEN <<"Abstract: " \o abstract>> ELSE <<>>)
        paper_id == MetaGet(paper, "paperId", "unknown")
    IN  [text |-> StrJoin("\n\n", parts),
         metadata |-> [source |-> "semantic_scholar:" \o paper_id,
                       doc_type |-> "paper_summary",
                       title |-> title,
                       year |-> year,
                       citations |-> citations,
                       arxiv_id |-> arxiv_id,
                       has_full_pdf |-> "false"],
         id |-> "ss_" \o paper_id]

\* download_arxiv_pdf (semantic_scholar.py:215-238).  response is what
\* requests.get(url, stream=True) and the reading of the body yield: a
\* status and, for 200, the body, given as what the PDF loader makes of the
\* file that holds it.  open(output_path, 'wb') empties the file, and the
\* pieces of the body are written as they arrive: when the connection is
\* lost before the last of them (lost), the file is left with what had
\* arrived (left) and the call raises.
download_arxiv_pdf(files, arxiv_id, response) ==
    LET output_path == "corpus/papers/" \o StrReplace(arxiv_id, "/", "_") \o ".pdf"
        written(state) == [q \in DOMAIN files \cup {output_path} |->
                              IF q = output_path THEN state ELSE files[q]]
    IN  IF response.status = 0
        THEN [error |-> "ConnectionError", found |-> FALSE, path |-> "", files |-> files]
        ELSE IF response.status # 200
        THEN [error |-> "none", found |-> FALSE, path |-> "", files |-> files]
        ELSE IF response.lost
        THEN [error |-> "ChunkedEncodingError", found |-> FALSE, path |-> "",
              files |-> written(response.left)]
        ELSE [error |-> "none", found |-> TRUE, path |-> output_path,
              files |-> written(response.body)]

\* upgrade_paper_to_full_pdf (semantic_scholar.py:288-335); none: it returns
\* None
upgrade_paper_to_full_pdf(files, arxiv_id, response) ==
    LET marked(chunk) ==
            [chunk EXCEPT !.metadata =
                [k \in DOMAIN chunk.metadata \cup {"has_full_pdf", "arxiv_id"} |->
                    CASE k = "has_full_pdf" -> "true"
                      [] k = "arxiv_id" -> arxiv_id
                      [] OTHER -> chunk.metadata[k]]]
        parsed(ingested, written) ==
            IF ~ingested.ok
            THEN [error |-> "none", none |-> TRUE, chunks |-> <<>>, files |-> written]
            ELSE [error |-> "none", none |-> FALSE,
                  chunks |-> [i \in 1..Len(ingested.records) |->
                                 marked(ingested.records[i])],
                  files |-> written]
        upgrade(downloaded) ==
            IF downloaded.error # "none"
            THEN [error |-> downloaded.error, none |-> TRUE, chunks |-> <<>>,
                  files |-> downloaded.files]
            ELSE IF ~downloaded.found
            THEN [error |-> "none", none |-> TRUE, chunks |-> <<>>,
                  files |-> downloaded.files]
            ELSE parsed(ingest_document(downloaded.files, downloaded.path,
                                        CHUNK_SIZE, CHUNK_OVERLAP),
                        downloaded.files)
    IN  upgrade(download_arxiv_pdf(files, arxiv_id, response))

\* upgrade_paper_by_arxiv (semantic_scholar.py:424-447); the result is <<>>
\* for None
upgrade_paper_by_arxiv(coll, files, arxiv_id, response, embed_ok) ==
    LET store(upgraded, added) ==
            [files |-> upgraded.files,
             out |-> IF upgraded.error # "none"
                     THEN Outcome(upgraded.error, coll, <<>>, <<>>, <<>>, <<>>)
                     ELSE IF upgraded.chunks = <<>>
                     THEN Outcome("none", coll, <<>>, <<>>, <<>>, <<>>)
                     ELSE IF added.error # "none" THEN added
                     ELSE [added EXCEPT !.result = upgraded.chunks]]
        upgrade(upgraded) ==
            store(upgraded, add_chunks(coll, upgraded.chunks, embed_ok))
    IN  upgrade(upgrade_paper_to_full_pdf(files, arxiv_id, response))

\* store.get(where={"$and": [doc_type = paper_summary, has_full_pdf = false]},
\* include=["metadatas"]) (semantic_scholar.py:349-357): the rows that match
SummariesWithoutPdf(coll) ==
    {r \in BagToSet(coll) :
        /\ MetaGet(r.metadata, "doc_type", <<>>) = "paper_summary"
        /\ MetaGet(r.metadata, "has_full_pdf", <<>>) = "false"}

\* the orders in which store.get may return them
GetOrders(rows) ==
    {f \in [1..Cardinality(rows) -> rows] :
        \A i, j \in 1..Cardinality(rows) : i # j => f[i] # f[j]}

\* the loop of semantic_scholar.py:362-371
RECURSIVE CollectPapers(_, _, _)
CollectPapers(metadatas, seen_arxiv, papers) ==
    IF metadatas = <<>> THEN papers
    ELSE LET metadata == Head(metadatas)
             arxiv_id == MetaGet(metadata, "arxiv_id", "")
         IN  IF arxiv_id # "" /\ arxiv_id \notin seen_arxiv
             THEN CollectPapers(Tail(metadatas), seen_arxiv \cup {arxiv_id},
                      Append(papers,
                             [arxiv_id |-> arxiv_id,
                              title |-> MetaGet(metadata, "title", "Unknown"),
                              citations |-> MetaGet(metadata, "citations", "0"),
                              year |-> MetaGet(metadata, "year", "N/A")]))
             ELSE CollectPapers(Tail(metadatas), seen_arxiv, papers)

\* papers.sort(key=lambda x: int(x.get("citations", 0)), reverse=True)
\* (semantic_scholar.py:374): stable, highest first
RECURSIVE SortByCitations(_)
SortByCitations(papers) ==
    IF papers = <<>> THEN <<>>
    ELSE LET sorted == SortByCitations(SubSeq(papers, 1, Len(papers) - 1))
             paper == papers[Len(papers)]
             k == Cardinality({i \in 1..Len(sorted) :
                      PyInt(sorted[i].citations) >= PyInt(paper.citations)})
         IN  SubSeq(sorted, 1, k) \o <<paper>> \o SubSeq(sorted, k + 1, Len(sorted))

\* list_papers_without_pdfs (semantic_scholar.py:338-375); results is what
\* store.get returned, in its order
list_papers_without_pdfs(results) ==
    LET papers == CollectPapers([i \in 1..Len(results) |-> results[i].metadata],
                                {}, <<>>)
    IN  IF \E i \in 1..Len(papers) : PyIntRaises(papers[i].citations)
        THEN [error |-> "ValueError", papers |-> <<>>]
        ELSE [error |-> "none", papers |-> SortByCitations(papers)]

\* semantic_scholar.py:395-396
EligiblePapers(results, min_citations) ==
    LET listed == list_papers_without_pdfs(results)
    IN  [listed EXCEPT !.papers =
            SelectSeq(@, LAMBDA paper : PyInt(paper.citations) >= min_citations)]

\* the papers Semantic Scholar returned at setup: two with an arXiv id, one
\* without, and a second entry for the arXiv id of the first
DiscoveredPapers ==
    <<[paperId |-> "p1", title |-> "RAG", authors |-> <<[name |-> "Lewis"]>>,
       year |-> 2020, citationCount |-> 300,
       externalIds |-> [ArXiv |-> "2005.11401"], abstract |-> "a b"],
      [paperId |-> "p2", title |-> "RAGAS", year |-> 2023, citationCount |-> 50,
       externalIds |-> [ArXiv |-> "2309.15217"],
       tldr |-> [text |-> "c"]],
      [paperId |-> "p3", title |-> "Survey", year |-> 2021, citationCount |-> 500,
       externalIds |-> [DOI |-> "10.1/x"]],
      [paperId |-> "p4", title |-> "RAG v2", year |-> 2021, citationCount |-> 120,
       externalIds |-> [ArXiv |-> "2005.11401"]]>>

ArxivIds == {"2005.11401", "2309.15217"}

\* what the PDF loader makes of a downloaded body: it raises, it finds no
\* text, or it extracts the text
PdfStates == {[ok |-> FALSE, text |-> ""], [ok |-> TRUE, text |-> " "],
              [ok |-> TRUE, text |-> "hello world"]}

\* the responses of arxiv.org; status 0 stands for requests.get raising.
\* truncated: what the body "hello world" leaves in the file when the
\* connection is lost while it is read: nothing, or the piece that had
\* arrived, of which the PDF loader makes nothing (it raises) or the text it
\* finds in it
Responses ==
    LET truncated == {[ok |-> FALSE, text |-> ""], [ok |-> FALSE, text |-> "hello "],
                      [ok |-> TRUE, text |-> "hello "]}
    IN  {[status |-> 0, body |-> <<>>, lost |-> FALSE, left |-> <<>>],
         [status |-> 404, body |-> <<>>, lost |-> FALSE, left |-> <<>>]}
        \cup {[status |-> 200, body |-> b, lost |-> FALSE, left |-> b] : b \in PdfStates}
        \cup {[status |-> 200, body |-> [ok |-> TRUE, text |-> "hello world"],
                lost |-> TRUE, left |-> t] : t \in truncated}

MaxUpgrade == 2

MinCitations == {0, 100}

\* the store after setup: add_chunks of the summaries (scripts/setup.py:127)
SummaryStore ==
    UpsertRows(EmptyBag,
               RowsOf([i \in 1..Len(DiscoveredPapers) |-> paper_to_chunk(DiscoveredPapers[i])],
                      embed([i \in 1..Len(DiscoveredPapers) |->
                                paper_to_chunk(DiscoveredPapers[i]).text])))

UpgradePaperByArxiv ==
    /\ up.pc = "idle"
    /\ \E arxiv_id \in ArxivIds, response \in Responses, embed_ok \in BOOLEAN :
        \E upgraded \in {upgrade_paper_by_arxiv(collection, fs, arxiv_id, response,
                                                 embed_ok)} :
            /\ fs' = upgraded.files
            /\ Did("upgrade_paper_by_arxiv", arxiv_id, upgraded.out)
    /\ UNCHANGED <<ct, idc, reingest, dir, up, fetch, chroma>>

\* the end of an upgrade_top_papers call: it returned or raised
UpDone(frame, error, rows) ==
    /\ up' = UpIdle
    /\ collection' = rows
    /\ last' = [op |-> "upgrade_top_papers", arg |-> <<frame.n, frame.min_citations>>,
                error |-> error, embed_calls |-> frame.embed_calls,
                index_queries |-> <<>>, writes |-> frame.writes,
                result |-> IF error = "none" THEN frame.all_new_chunks ELSE <<>>,
                before |-> frame.before, prev |-> <<"other", <<>>, "none">>]

\* upgrade_top_papers up to the loop (semantic_scholar.py:393-405)
UpStart ==
    /\ up.pc = "idle"
    /\ \E n \in 1..MaxUpgrade, min_citations \in MinCitations,
          results \in GetOrders(SummariesWithoutPdf(collection)) :
        \E eligible \in {EligiblePapers(results, min_citations)} :
        LET frame == [pc |-> "loop", n |-> n, min_citations |-> min_citations,
                      papers |-> FirstN(eligible.papers, n), all_new_chunks |-> <<>>,
                      embed_calls |-> <<>>, writes |-> <<>>, before |-> collection]
        IN  IF eligible.error # "none"
            THEN UpDone(frame, eligible.error, collection)
            ELSE IF eligible.papers = <<>>
            THEN UpDone(frame, "none", collection)
            ELSE up' = frame /\ UNCHANGED <<collection, last>>
    /\ UNCHANGED <<ct, idc, fs, reingest, dir, fetch, chroma>>

\* one pass of the loop (semantic_scholar.py:407-417)
UpPaper ==
    /\ up.pc = "loop" /\ up.papers # <<>>
    /\ \E response \in Responses, embed_ok \in BOOLEAN :
        \E upgraded \in {upgrade_paper_to_full_pdf(fs, Head(up.papers).arxiv_id,
                                                   response)} :
        LET added == add_chunks(collection, upgraded.chunks, embed_ok)
            frame == [up EXCEPT !.papers = Tail(up.papers),
                                !.embed_calls = @ \o added.embed_calls,
                                !.writes = @ \o added.writes]
        IN  /\ fs' = upgraded.files
            /\ IF upgraded.error # "none"
               THEN UpDone(up, upgraded.error, collection)
               ELSE IF upgraded.chunks = <<>>
               THEN up' = [up EXCEPT !.papers = Tail(up.papers)]
                    /\ UNCHANGED <<collection, last>>
               ELSE IF added.error # "none"
               THEN UpDone(frame, added.error, added.rows)
               ELSE /\ up' = [frame EXCEPT !.all_new_chunks = @ \o upgraded.chunks]
                    /\ collection' = added.rows
                    /\ UNCHANGED last
    /\ UNCHANGED <<ct, idc, reingest, dir, fetch, chroma>>

\* the loop is over (semantic_scholar.py:420-421)
UpReturn ==
    /\ up.pc = "loop" /\ up.papers = <<>>
    /\ UpDone(up, "none", collection)
    /\ UNCHANGED <<ct, idc, fs, reingest, dir, fetch, chroma>>

-----------------------------------------------------------------------------
(* The inputs of chunk_text that are explored                              *)

MaxParagraphs == 3
MaxChunkSize == 3

\* paragraph texts: blank ones (the empty one, and a space with a form feed
\* and U+1680), ones that fit, ones with several sentences, and one whose
\* words are set apart by U+1680, a line feed and a space
ParagraphTexts ==
    {"", " \f ", "a", "a b", "a. b", "b. a b", "a b. a. b c", "a b\nc d"}

\* overlap ratios in [0,1) with an exact binary representation
OverlapRatios == {<<0, 1>>, <<1, 4>>, <<1, 2>>, <<3, 4>>}

\* the texts: up to MaxParagraphs paragraph texts separated by blank lines
InputTexts ==
    {""} \cup UNION {{StrJoin("\n\n", ps) : ps \in [1..n -> ParagraphTexts]} :
                     n \in 1..MaxParagraphs}

-----------------------------------------------------------------------------
(* chunk_text as a state machine: one step per paragraph                   *)


CtStart(text, chunk_size, overlap_ratio) ==
    [pc |-> "loop", text |-> text, chunk_size |-> chunk_size,
     overlap_ratio |-> overlap_ratio,
     overlap_size |-> OverlapSize(chunk_size, overlap_ratio),
     paragraphs |-> StrSplit(text, "\n\n"),
     chunks |-> <<>>, current_chunk |-> <<>>, current_size |-> 0]

CtLoopState == [chunks |-> ct.chunks, current_chunk |-> ct.current_chunk,
                current_size |-> ct.current_size]

CtAdvance(st) ==
    ct' = [ct EXCEPT !.paragraphs = Tail(@), !.chunks = st.chunks,
                     !.current_chunk = st.current_chunk,
                     !.current_size = st.current_size]

\* ingest.py:110-112: a paragraph that is blank after strip() is skipped
CtSkipBlank ==
    /\ ct.pc = "loop" /\ ct.paragraphs # <<>>
    /\ StrStrip(Head(ct.paragraphs)) = ""
    /\ CtAdvance(ParagraphStep(CtLoopState, Head(ct.paragraphs),
                               ct.chunk_size, ct.overlap_size))
    /\ UNCHANGED <<idc, fs, reingest, dir, up, fetch, chroma, collection, last>>

\* ingest.py:118-149: a paragraph larger than chunk_size is split by sentences
CtSplitLarge ==
    /\ ct.pc = "loop" /\ ct.paragraphs # <<>>
    /\ StrStrip(Head(ct.paragraphs)) # ""
    /\ Len(StrWords(Head(ct.paragraphs))) > ct.chunk_size
    /\ CtAdvance(ParagraphStep(CtLoopState, Head(ct.paragraphs),
                               ct.chunk_size, ct.overlap_size))
    /\ UNCHANGED <<idc, fs, reingest, dir, up, fetch, chroma, collection, last>>

\* ingest.py:150-160: a paragraph that fits joins the accumulator
CtAccumulate ==
    /\ ct.pc = "loop" /\ ct.paragraphs # <<>>
    /\ StrStrip(Head(ct.paragraphs)) # ""
    /\ Len(StrWords(Head(ct.paragraphs))) <= ct.chunk_size
    /\ CtAdvance(ParagraphStep(CtLoopState, Head(ct.paragraphs),
                               ct.chunk_size, ct.overlap_size))
    /\ UNCHANGED <<idc, fs, reingest, dir, up, fetch, chroma, collection, last>>

\* ingest.py:162-166: the final flush and the return
CtReturn ==
    /\ ct.pc = "loop" /\ ct.paragraphs = <<>>
    /\ ct' = [ct EXCEPT !.pc = "done", !.chunks = FlushFinal(CtLoopState)]
    /\ UNCHANGED <<idc, fs, reingest, dir, up, fetch, chroma, collection, last>>

-----------------------------------------------------------------------------
(* Community content adapters (community.py)                               *)

\* re.sub(r'<[^>]+>', '', text): every leftmost "<", one or more characters
\* other than ">", ">" is removed
RECURSIVE StripTags(_)
StripTags(text) ==
    LET open == StrFind(text, "<", 1)
        close == IF open = 0 THEN 0 ELSE StrFind(text, ">", open + 1)
    IN  IF open = 0 \/ close = 0 THEN text
        ELSE IF close = open + 1
        THEN SubSeq(text, 1, open) \o StripTags(SubSeq(text, open + 1, Len(text)))
        ELSE SubSeq(text, 1, open - 1) \o StripTags(SubSeq(text, close + 1, Len(text)))

\* the characters with the code points 32..95, 97..126 and 160..255, in
\* order; the grave accent, 96, cannot stand in a string of this module
AsciiChars ==
    " !\"#$%&'()*+,-./0123456789:;<=>?@ABCDEFGHIJKLMNOPQRSTUVWXYZ[\\]^_"
LowerChars ==
    "abcdefghijklmnopqrstuvwxyz{|}~"
Latin1Chars ==
    " ¡¢£¤¥¦§¨©ª«¬­®¯°±²³´µ¶·¸¹º»¼½¾¿ÀÁÂÃÄÅÆÇÈÉÊËÌÍÎÏÐÑÒÓÔÕÖ×ØÙÚÛÜÝÞßàáâãäåæçèéêëìíîïðñòóôõö÷øùúûüýþÿ"

\* html.entities.html5, the table html.unescape reads (html/__init__.py:116):
\* the names whose characters a string of this module can hold, with and
\* without the closing ";"
HtmlEntities ==
    (("AElig" :> "Æ") @@ ("AElig;" :> "Æ") @@ ("AMP" :> "&") @@
     ("AMP;" :> "&") @@ ("Aacute" :> "Á") @@ ("Aacute;" :> "Á") @@
     ("Acirc" :> "Â") @@ ("Acirc;" :> "Â") @@ ("Agrave" :> "À") @@
     ("Agrave;" :> "À") @@ ("Alpha;" :> "Α") @@ ("Aring" :> "Å") @@
     ("Aring;" :> "Å") @@ ("Atilde" :> "Ã") @@ ("Atilde;" :> "Ã") @@
     ("Auml" :> "Ä") @@ ("Auml;" :> "Ä") @@ ("Barv;" :> "⫧") @@
     ("Beta;" :> "Β") @@ ("Breve;" :> "˘") @@ ("COPY" :> "©") @@
     ("COPY;" :> "©") @@ ("Cap;" :> "⋒") @@ ("Ccedil" :> "Ç") @@
     ("Ccedil;" :> "Ç") @@ ("Cedilla;" :> "¸") @@ ("CenterDot;" :> "·") @@
     ("Chi;" :> "Χ") @@ ("CircleDot;" :> "⊙") @@ ("CircleMinus;" :> "⊖") @@
     ("CirclePlus;" :> "⊕") @@ ("CircleTimes;" :> "⊗") @@ ("Cup;" :> "⋓") @@
     ("Darr;" :> "↡") @@ ("Dashv;" :> "⫤") @@ ("Delta;" :> "Δ") @@
     ("DiacriticalAcute;" :> "´") @@ ("DiacriticalDot;" :> "˙") @@
     ("DiacriticalDoubleAcute;" :> "˝") @@ ("DiacriticalTilde;" :> "˜"))
    @@
    (("Diamond;" :> "⋄") @@ ("Dot;" :> "¨") @@ ("DotDot;" :> "⃜") @@
     ("DoubleDot;" :> "¨") @@ ("DoubleDownArrow;" :> "⇓") @@
     ("DoubleLeftArrow;" :> "⇐") @@ ("DoubleLeftRightArrow;" :> "⇔") @@
     ("DoubleLeftTee;" :> "⫤") @@ ("DoubleLongLeftArrow;" :> "⟸") @@
     ("DoubleLongLeftRightArrow;" :> "⟺") @@
     ("DoubleLongRightArrow;" :> "⟹") @@ ("DoubleRightArrow;" :> "⇒") @@
     ("DoubleRightTee;" :> "⊨") @@ ("DoubleUpArrow;" :> "⇑") @@
     ("DoubleUpDownArrow;" :> "⇕") @@ ("DownArrow;" :> "↓") @@
     ("DownArrowUpArrow;" :> "⇵") @@ ("DownLeftVector;" :> "↽") @@
     ("DownRightVector;" :> "⇁") @@ ("DownTee;" :> "⊤") @@
     ("DownTeeArrow;" :> "↧") @@ ("Downarrow;" :> "⇓") @@ ("ETH" :> "Ð") @@
     ("ETH;" :> "Ð") @@ ("Eacute" :> "É") @@ ("Eacute;" :> "É") @@
     ("Ecirc" :> "Ê") @@ ("Ecirc;" :> "Ê") @@ ("Egrave" :> "È") @@
     ("Egrave;" :> "È") @@ ("EmptySmallSquare;" :> "◻") @@
     ("EmptyVerySmallSquare;" :> "▫") @@ ("Epsilon;" :> "Ε") @@
     ("Equilibrium;" :> "⇌") @@ ("Eta;" :> "Η") @@ ("Euml" :> "Ë") @@
     ("Euml;" :> "Ë") @@ ("FilledSmallSquare;" :> "◼") @@
     ("FilledVerySmallSquare;" :> "▪") @@ ("GT" :> ">"))
    @@
    (("GT;" :> ">") @@ ("Gamma;" :> "Γ") @@ ("Gammad;" :> "Ϝ") @@
     ("Gg;" :> "⋙") @@ ("GreaterEqualLess;" :> "⋛") @@
     ("GreaterGreater;" :> "⪢") @@ ("Hacek;" :> "ˇ") @@ ("Hat;" :> "^") @@
     ("Iacute" :> "Í") @@ ("Iacute;" :> "Í") @@ ("Icirc" :> "Î") @@
     ("Icirc;" :> "Î") @@ ("Igrave" :> "Ì") @@ ("Igrave;" :> "Ì") @@
     ("Implies;" :> "⇒") @@ ("Intersection;" :> "⋂") @@ ("Iota;" :> "Ι") @@
     ("Iuml" :> "Ï") @@ ("Iuml;" :> "Ï") @@ ("Kappa;" :> "Κ") @@
     ("LT" :> "<") @@ ("LT;" :> "<") @@ ("Lambda;" :> "Λ") @@
     ("Lang;" :> "⟪") @@ ("Larr;" :> "↞") @@ ("LeftAngleBracket;" :> "⟨") @@
     ("LeftArrow;" :> "←") @@ ("LeftArrowBar;" :> "⇤") @@
     ("LeftArrowRightArrow;" :> "⇆") @@ ("LeftDoubleBracket;" :> "⟦") @@
     ("LeftDownVector;" :> "⇃") @@ ("LeftRightArrow;" :> "↔") @@
     ("LeftTee;" :> "⊣") @@ ("LeftTeeArrow;" :> "↤") @@
     ("LeftTriangle;" :> "⊲") @@ ("LeftTriangleBar;" :> "⧏") @@
     ("LeftTriangleEqual;" :> "⊴") @@ ("LeftUpVector;" :> "↿") @@
     ("LeftVector;" :> "↼") @@ ("Leftarrow;" :> "⇐"))
    @@
    (("Leftrightarrow;" :> "⇔") @@ ("LessEqualGreater;" :> "⋚") @@
     ("LessLess;" :> "⪡") @@ ("Ll;" :> "⋘") @@ ("Lleftarrow;" :> "⇚") @@
     ("LongLeftArrow;" :> "⟵") @@ ("LongLeftRightArrow;" :> "⟷") @@
     ("LongRightArrow;" :> "⟶") @@ ("Longleftarrow;" :> "⟸") @@
     ("Longleftrightarrow;" :> "⟺") @@ ("Longrightarrow;" :> "⟹") @@
     ("LowerLeftArrow;" :> "↙") @@ ("LowerRightArrow;" :> "↘") @@
     ("Lsh;" :> "↰") @@ ("Mu;" :> "Μ") @@ ("NewLine;" :> "\n") @@
     ("NonBreakingSpace;" :> " ") @@ ("Not;" :> "⫬") @@
     ("NotLeftTriangle;" :> "⋪") @@ ("NotLeftTriangleEqual;" :> "⋬") @@
     ("NotPrecedes;" :> "⊀") @@ ("NotPrecedesSlantEqual;" :> "⋠") @@
     ("NotRightTriangle;" :> "⋫") @@ ("NotRightTriangleEqual;" :> "⋭") @@
     ("NotSquareSubsetEqual;" :> "⋢") @@
     ("NotSquareSupersetEqual;" :> "⋣") @@ ("NotSubset;" :> "⊂⃒") @@
     ("NotSubsetEqual;" :> "⊈") @@ ("NotSucceeds;" :> "⊁") @@
     ("NotSucceedsSlantEqual;" :> "⋡") @@ ("NotSuperset;" :> "⊃⃒") @@
     ("NotSupersetEqual;" :> "⊉") @@ ("Ntilde" :> "Ñ") @@
     ("Ntilde;" :> "Ñ") @@ ("Nu;" :> "Ν") @@ ("Oacute" :> "Ó") @@
     ("Oacute;" :> "Ó") @@ ("Ocirc" :> "Ô") @@ ("Ocirc;" :> "Ô") @@
     ("Ograve" :> "Ò"))
    @@
    (("Ograve;" :> "Ò") @@ ("Omega;" :> "Ω") @@ ("Omicron;" :> "Ο") @@
     ("Oslash" :> "Ø") @@ ("Oslash;" :> "Ø") @@ ("Otilde" :> "Õ") @@
     ("Otilde;" :> "Õ") @@ ("Ouml" :> "Ö") @@ ("Ouml;" :> "Ö") @@
     ("OverBrace;" :> "⏞") @@ ("OverBracket;" :> "⎴") @@
     ("OverParenthesis;" :> "⏜") @@ ("Phi;" :> "Φ") @@ ("Pi;" :> "Π") @@
     ("PlusMinus;" :> "±") @@ ("Pr;" :> "⪻") @@ ("PrecedesEqual;" :> "⪯") @@
     ("Psi;" :> "Ψ") @@ ("QUOT" :> "\"") @@ ("QUOT;" :> "\"") @@
     ("REG" :> "®") @@ ("REG;" :> "®") @@ ("Rang;" :> "⟫") @@
     ("Rarr;" :> "↠") @@ ("ReverseEquilibrium;" :> "⇋") @@ ("Rho;" :> "Ρ") @@
     ("RightAngleBracket;" :> "⟩") @@ ("RightArrow;" :> "→") @@
     ("RightArrowBar;" :> "⇥") @@ ("RightArrowLeftArrow;" :> "⇄") @@
     ("RightDoubleBracket;" :> "⟧") @@ ("RightDownVector;" :> "⇂") @@
     ("RightTee;" :> "⊢") @@ ("RightTeeArrow;" :> "↦") @@
     ("RightTriangle;" :> "⊳") @@ ("RightTriangleBar;" :> "⧐") @@
     ("RightTriangleEqual;" :> "⊵") @@ ("RightUpVector;" :> "↾") @@
     ("RightVector;" :> "⇀") @@ ("Rightarrow;" :> "⇒"))
    @@
    (("Rrightarrow;" :> "⇛") @@ ("Rsh;" :> "↱") @@ ("RuleDelayed;" :> "⧴") @@
     ("Sc;" :> "⪼") @@ ("ShortDownArrow;" :> "↓") @@
     ("ShortLeftArrow;" :> "←") @@ ("ShortRightArrow;" :> "→") @@
     ("ShortUpArrow;" :> "↑") @@ ("Sigma;" :> "Σ") @@ ("Square;" :> "□") @@
     ("SquareIntersection;" :> "⊓") @@ ("SquareSubset;" :> "⊏") @@
     ("SquareSubsetEqual;" :> "⊑") @@ ("SquareSuperset;" :> "⊐") @@
     ("SquareSupersetEqual;" :> "⊒") @@ ("SquareUnion;" :> "⊔") @@
     ("Star;" :> "⋆") @@ ("Sub;" :> "⋐") @@ ("Subset;" :> "⋐") @@
     ("SubsetEqual;" :> "⊆") @@ ("SucceedsEqual;" :> "⪰") @@
     ("Sup;" :> "⋑") @@ ("Superset;" :> "⊃") @@ ("SupersetEqual;" :> "⊇") @@
     ("Supset;" :> "⋑") @@ ("THORN" :> "Þ") @@ ("THORN;" :> "Þ") @@
     ("Tab;" :> "\t") @@ ("Tau;" :> "Τ") @@ ("Theta;" :> "Θ") @@
     ("TripleDot;" :> "⃛") @@ ("Uacute" :> "Ú") @@ ("Uacute;" :> "Ú") @@
     ("Uarr;" :> "↟") @@ ("Ucirc" :> "Û") @@ ("Ucirc;" :> "Û") @@
     ("Ugrave" :> "Ù") @@ ("Ugrave;" :> "Ù") @@ ("UnderBar;" :> "_") @@
     ("UnderBrace;" :> "⏟"))
    @@
    (("UnderBracket;" :> "⎵") @@ ("UnderParenthesis;" :> "⏝") @@
     ("Union;" :> "⋃") @@ ("UnionPlus;" :> "⊎") @@ ("UpArrow;" :> "↑") @@
     ("UpArrowDownArrow;" :> "⇅") @@ ("UpDownArrow;" :> "↕") @@
     ("UpTee;" :> "⊥") @@ ("UpTeeArrow;" :> "↥") @@ ("Uparrow;" :> "⇑") @@
     ("Updownarrow;" :> "⇕") @@ ("UpperLeftArrow;" :> "↖") @@
     ("UpperRightArrow;" :> "↗") @@ ("Upsi;" :> "ϒ") @@
     ("Upsilon;" :> "Υ") @@ ("Uuml" :> "Ü") @@ ("Uuml;" :> "Ü") @@
     ("VDash;" :> "⊫") @@ ("Vbar;" :> "⫫") @@ ("Vdash;" :> "⊩") @@
     ("Vdashl;" :> "⫦") @@ ("Vee;" :> "⋁") @@ ("VerticalLine;" :> "|") @@
     ("Vvdash;" :> "⊪") @@ ("Wedge;" :> "⋀") @@ ("Xi;" :> "Ξ") @@
     ("Yacute" :> "Ý") @@ ("Yacute;" :> "Ý") @@ ("Zeta;" :> "Ζ") @@
     ("aacute" :> "á") @@ ("aacute;" :> "á") @@ ("acirc" :> "â") @@
     ("acirc;" :> "â") @@ ("acute" :> "´") @@ ("acute;" :> "´") @@
     ("aelig" :> "æ") @@ ("aelig;" :> "æ") @@ ("agrave" :> "à") @@
     ("agrave;" :> "à") @@ ("alpha;" :> "α"))
    @@
    (("amp" :> "&") @@ ("amp;" :> "&") @@ ("ange;" :> "⦤") @@
     ("angmsdaa;" :> "⦨") @@ ("angmsdab;" :> "⦩") @@ ("angmsdac;" :> "⦪") @@
     ("angmsdad;" :> "⦫") @@ ("angmsdae;" :> "⦬") @@ ("angmsdaf;" :> "⦭") @@
     ("angmsdag;" :> "⦮") @@ ("angmsdah;" :> "⦯") @@ ("angrtvb;" :> "⊾") @@
     ("angrtvbd;" :> "⦝") @@ ("angst;" :> "Å") @@ ("apos;" :> "'") @@
     ("aring" :> "å") @@ ("aring;" :> "å") @@ ("ast;" :> "*") @@
     ("atilde" :> "ã") @@ ("atilde;" :> "ã") @@ ("auml" :> "ä") @@
     ("auml;" :> "ä") @@ ("bNot;" :> "⫭") @@ ("backepsilon;" :> "϶") @@
     ("backsimeq;" :> "⋍") @@ ("barvee;" :> "⊽") @@ ("bbrk;" :> "⎵") @@
     ("bbrktbrk;" :> "⎶") @@ ("bemptyv;" :> "⦰") @@ ("bepsi;" :> "϶") @@
     ("beta;" :> "β") @@ ("bigcap;" :> "⋂") @@ ("bigcirc;" :> "◯") @@
     ("bigcup;" :> "⋃") @@ ("bigtriangledown;" :> "▽") @@
     ("bigtriangleup;" :> "△") @@ ("bigvee;" :> "⋁") @@
     ("bigwedge;" :> "⋀") @@ ("blacklozenge;" :> "⧫") @@
     ("blacksquare;" :> "▪"))
    @@
    (("blacktriangle;" :> "▴") @@ ("blacktriangledown;" :> "▾") @@
     ("blacktriangleleft;" :> "◂") @@ ("blacktriangleright;" :> "▸") @@
     ("blk12;" :> "▒") @@ ("blk14;" :> "░") @@ ("blk34;" :> "▓") @@
     ("block;" :> "█") @@ ("bne;" :> "=⃥") @@ ("bot;" :> "⊥") @@
     ("bottom;" :> "⊥") @@ ("bowtie;" :> "⋈") @@ ("boxbox;" :> "⧉") @@
     ("boxminus;" :> "⊟") @@ ("boxplus;" :> "⊞") @@ ("boxtimes;" :> "⊠") @@
     ("breve;" :> "˘") @@ ("brvbar" :> "¦") @@ ("brvbar;" :> "¦") @@
     ("bsime;" :> "⋍") @@ ("bsol;" :> "\\") @@ ("bsolb;" :> "⧅") @@
     ("bsolhsub;" :> "⟈") @@ ("bumpE;" :> "⪮") @@ ("caron;" :> "ˇ") @@
     ("ccedil" :> "ç") @@ ("ccedil;" :> "ç") @@ ("cedil" :> "¸") @@
     ("cedil;" :> "¸") @@ ("cemptyv;" :> "⦲") @@ ("cent" :> "¢") @@
     ("cent;" :> "¢") @@ ("centerdot;" :> "·") @@ ("chi;" :> "χ") @@
     ("cir;" :> "○") @@ ("cirE;" :> "⧃") @@ ("circ;" :> "ˆ") @@
     ("circlearrowleft;" :> "↺") @@ ("circlearrowright;" :> "↻") @@
     ("circledR;" :> "®"))
    @@
    (("circledS;" :> "Ⓢ") @@ ("circledast;" :> "⊛") @@
     ("circledcirc;" :> "⊚") @@ ("circleddash;" :> "⊝") @@
     ("cirmid;" :> "⫯") @@ ("cirscir;" :> "⧂") @@ ("colon;" :> ":") @@
     ("comma;" :> ",") @@ ("commat;" :> "@") @@ ("copy" :> "©") @@
     ("copy;" :> "©") @@ ("crarr;" :> "↵") @@ ("csub;" :> "⫏") @@
     ("csube;" :> "⫑") @@ ("csup;" :> "⫐") @@ ("csupe;" :> "⫒") @@
     ("ctdot;" :> "⋯") @@ ("cuepr;" :> "⋞") @@ ("cuesc;" :> "⋟") @@
     ("cularr;" :> "↶") @@ ("cupdot;" :> "⊍") @@ ("curarr;" :> "↷") @@
     ("curlyeqprec;" :> "⋞") @@ ("curlyeqsucc;" :> "⋟") @@
     ("curlyvee;" :> "⋎") @@ ("curlywedge;" :> "⋏") @@ ("curren" :> "¤") @@
     ("curren;" :> "¤") @@ ("curvearrowleft;" :> "↶") @@
     ("curvearrowright;" :> "↷") @@ ("cuvee;" :> "⋎") @@ ("cuwed;" :> "⋏") @@
     ("dArr;" :> "⇓") @@ ("darr;" :> "↓") @@ ("dashv;" :> "⊣") @@
     ("dblac;" :> "˝") @@ ("ddarr;" :> "⇊") @@ ("deg" :> "°") @@
     ("deg;" :> "°") @@ ("delta;" :> "δ"))
    @@
    (("demptyv;" :> "⦱") @@ ("dharl;" :> "⇃") @@ ("dharr;" :> "⇂") @@
     ("diam;" :> "⋄") @@ ("diamond;" :> "⋄") @@ ("die;" :> "¨") @@
     ("digamma;" :> "ϝ") @@ ("disin;" :> "⋲") @@ ("div;" :> "÷") @@
     ("divide" :> "÷") @@ ("divide;" :> "÷") @@ ("divideontimes;" :> "⋇") @@
     ("divonx;" :> "⋇") @@ ("dollar;" :> "$") @@ ("dot;" :> "˙") @@
     ("dotsquare;" :> "⊡") @@ ("downarrow;" :> "↓") @@
     ("downdownarrows;" :> "⇊") @@ ("downharpoonleft;" :> "⇃") @@
     ("downharpoonright;" :> "⇂") @@ ("dsol;" :> "⧶") @@ ("dtdot;" :> "⋱") @@
     ("dtri;" :> "▿") @@ ("dtrif;" :> "▾") @@ ("duarr;" :> "⇵") @@
     ("dwangle;" :> "⦦") @@ ("dzigrarr;" :> "⟿") @@ ("eacute" :> "é") @@
     ("eacute;" :> "é") @@ ("ecirc" :> "ê") @@ ("ecirc;" :> "ê") @@
     ("eg;" :> "⪚") @@ ("egrave" :> "è") @@ ("egrave;" :> "è") @@
     ("egs;" :> "⪖") @@ ("egsdot;" :> "⪘") @@ ("el;" :> "⪙") @@
     ("elinters;" :> "⏧") @@ ("els;" :> "⪕") @@ ("elsdot;" :> "⪗"))
    @@
    (("epar;" :> "⋕") @@ ("eparsl;" :> "⧣") @@ ("epsi;" :> "ε") @@
     ("epsilon;" :> "ε") @@ ("epsiv;" :> "ϵ") @@ ("eqslantgtr;" :> "⪖") @@
     ("eqslantless;" :> "⪕") @@ ("equals;" :> "=") @@ ("eqvparsl;" :> "⧥") @@
     ("eta;" :> "η") @@ ("eth" :> "ð") @@ ("eth;" :> "ð") @@
     ("euml" :> "ë") @@ ("euml;" :> "ë") @@ ("euro;" :> "€") @@
     ("excl;" :> "!") @@ ("fjlig;" :> "fj") @@ ("fltns;" :> "▱") @@
     ("fnof;" :> "ƒ") @@ ("fork;" :> "⋔") @@ ("forkv;" :> "⫙") @@
     ("frac12" :> "½") @@ ("frac12;" :> "½") @@ ("frac14" :> "¼") @@
     ("frac14;" :> "¼") @@ ("frac34" :> "¾") @@ ("frac34;" :> "¾") @@
     ("gEl;" :> "⪌") @@ ("gacute;" :> "ǵ") @@ ("gamma;" :> "γ") @@
     ("gammad;" :> "ϝ") @@ ("gap;" :> "⪆") @@ ("gel;" :> "⋛") @@
     ("gescc;" :> "⪩") @@ ("gesdot;" :> "⪀") @@ ("gesdoto;" :> "⪂") @@
     ("gesdotol;" :> "⪄") @@ ("gesles;" :> "⪔") @@ ("ggg;" :> "⋙") @@
     ("glE;" :> "⪒"))
    @@
    (("gla;" :> "⪥") @@ ("glj;" :> "⪤") @@ ("gnap;" :> "⪊") @@
     ("gnapprox;" :> "⪊") @@ ("gne;" :> "⪈") @@ ("gneq;" :> "⪈") @@
     ("gnsim;" :> "⋧") @@ ("gsime;" :> "⪎") @@ ("gsiml;" :> "⪐") @@
     ("gt" :> ">") @@ ("gt;" :> ">") @@ ("gtcc;" :> "⪧") @@
     ("gtdot;" :> "⋗") @@ ("gtlPar;" :> "⦕") @@ ("gtrapprox;" :> "⪆") @@
     ("gtrdot;" :> "⋗") @@ ("gtreqless;" :> "⋛") @@ ("gtreqqless;" :> "⪌") @@
     ("hArr;" :> "⇔") @@ ("half;" :> "½") @@ ("harr;" :> "↔") @@
     ("harrw;" :> "↭") @@ ("hercon;" :> "⊹") @@ ("hoarr;" :> "⇿") @@
     ("hookleftarrow;" :> "↩") @@ ("hookrightarrow;" :> "↪") @@
     ("iacute" :> "í") @@ ("iacute;" :> "í") @@ ("icirc" :> "î") @@
     ("icirc;" :> "î") @@ ("iexcl" :> "¡") @@ ("iexcl;" :> "¡") @@
     ("iff;" :> "⇔") @@ ("igrave" :> "ì") @@ ("igrave;" :> "ì") @@
     ("iinfin;" :> "⧜") @@ ("imof;" :> "⊷") @@ ("imped;" :> "Ƶ") @@
     ("infintie;" :> "⧝") @@ ("intcal;" :> "⊺"))
    @@
    (("intercal;" :> "⊺") @@ ("iota;" :> "ι") @@ ("iquest" :> "¿") @@
     ("iquest;" :> "¿") @@ ("isinE;" :> "⋹") @@ ("isindot;" :> "⋵") @@
     ("isins;" :> "⋴") @@ ("isinsv;" :> "⋳") @@ ("iuml" :> "ï") @@
     ("iuml;" :> "ï") @@ ("kappa;" :> "κ") @@ ("kappav;" :> "ϰ") @@
     ("lAarr;" :> "⇚") @@ ("lArr;" :> "⇐") @@ ("lEg;" :> "⪋") @@
     ("laemptyv;" :> "⦴") @@ ("lambda;" :> "λ") @@ ("lang;" :> "⟨") @@
     ("langd;" :> "⦑") @@ ("langle;" :> "⟨") @@ ("lap;" :> "⪅") @@
     ("laquo" :> "«") @@ ("laquo;" :> "«") @@ ("larr;" :> "←") @@
     ("larrb;" :> "⇤") @@ ("larrhk;" :> "↩") @@ ("larrlp;" :> "↫") @@
     ("larrtl;" :> "↢") @@ ("lat;" :> "⪫") @@ ("late;" :> "⪭") @@
     ("lbrace;" :> "{") @@ ("lbrack;" :> "[") @@ ("lbrke;" :> "⦋") @@
     ("lbrksld;" :> "⦏") @@ ("lbrkslu;" :> "⦍") @@ ("lcub;" :> "{") @@
     ("ldsh;" :> "↲") @@ ("leftarrow;" :> "←") @@
     ("leftarrowtail;" :> "↢") @@ ("leftharpoondown;" :> "↽"))
    @@
    (("leftharpoonup;" :> "↼") @@ ("leftleftarrows;" :> "⇇") @@
     ("leftrightarrow;" :> "↔") @@ ("leftrightarrows;" :> "⇆") @@
     ("leftrightharpoons;" :> "⇋") @@ ("leftrightsquigarrow;" :> "↭") @@
     ("leftthreetimes;" :> "⋋") @@ ("leg;" :> "⋚") @@ ("lescc;" :> "⪨") @@
     ("lesdoto;" :> "⪁") @@ ("lesdotor;" :> "⪃") @@ ("lesges;" :> "⪓") @@
     ("lessapprox;" :> "⪅") @@ ("lessdot;" :> "⋖") @@
     ("lesseqgtr;" :> "⋚") @@ ("lesseqqgtr;" :> "⪋") @@ ("lgE;" :> "⪑") @@
     ("lhard;" :> "↽") @@ ("lharu;" :> "↼") @@ ("lhblk;" :> "▄") @@
     ("llarr;" :> "⇇") @@ ("lltri;" :> "◺") @@ ("lmoust;" :> "⎰") @@
     ("lmoustache;" :> "⎰") @@ ("lnap;" :> "⪉") @@ ("lnapprox;" :> "⪉") @@
     ("lne;" :> "⪇") @@ ("lneq;" :> "⪇") @@ ("lnsim;" :> "⋦") @@
     ("loang;" :> "⟬") @@ ("loarr;" :> "⇽") @@ ("lobrk;" :> "⟦") @@
     ("longleftarrow;" :> "⟵") @@ ("longleftrightarrow;" :> "⟷") @@
     ("longmapsto;" :> "⟼") @@ ("longrightarrow;" :> "⟶") @@
     ("looparrowleft;" :> "↫") @@ ("looparrowright;" :> "↬") @@
     ("lopar;" :> "⦅") @@ ("lowbar;" :> "_"))
    @@
    (("loz;" :> "◊") @@ ("lozenge;" :> "◊") @@ ("lozf;" :> "⧫") @@
     ("lpar;" :> "(") @@ ("lparlt;" :> "⦓") @@ ("lrarr;" :> "⇆") @@
     ("lrhar;" :> "⇋") @@ ("lrtri;" :> "⊿") @@ ("lsh;" :> "↰") @@
     ("lsime;" :> "⪍") @@ ("lsimg;" :> "⪏") @@ ("lsqb;" :> "[") @@
     ("lt" :> "<") @@ ("lt;" :> "<") @@ ("ltcc;" :> "⪦") @@
     ("ltdot;" :> "⋖") @@ ("lthree;" :> "⋋") @@ ("ltimes;" :> "⋉") @@
     ("ltrPar;" :> "⦖") @@ ("ltri;" :> "◃") @@ ("ltrie;" :> "⊴") @@
     ("ltrif;" :> "◂") @@ ("macr" :> "¯") @@ ("macr;" :> "¯") @@
     ("map;" :> "↦") @@ ("mapsto;" :> "↦") @@ ("mapstodown;" :> "↧") @@
     ("mapstoleft;" :> "↤") @@ ("mapstoup;" :> "↥") @@ ("marker;" :> "▮") @@
     ("micro" :> "µ") @@ ("micro;" :> "µ") @@ ("midast;" :> "*") @@
     ("midcir;" :> "⫰") @@ ("middot" :> "·") @@ ("middot;" :> "·") @@
     ("minusb;" :> "⊟") @@ ("mlcp;" :> "⫛") @@ ("models;" :> "⊧") @@
     ("mu;" :> "μ"))
    @@
    (("multimap;" :> "⊸") @@ ("mumap;" :> "⊸") @@ ("nLeftarrow;" :> "⇍") @@
     ("nLeftrightarrow;" :> "⇎") @@ ("nRightarrow;" :> "⇏") @@
     ("nVDash;" :> "⊯") @@ ("nVdash;" :> "⊮") @@ ("nbsp" :> " ") @@
     ("nbsp;" :> " ") @@ ("neArr;" :> "⇗") @@ ("nearr;" :> "↗") @@
     ("nearrow;" :> "↗") @@ ("nhArr;" :> "⇎") @@ ("nharr;" :> "↮") @@
     ("nhpar;" :> "⫲") @@ ("nis;" :> "⋼") @@ ("nisd;" :> "⋺") @@
     ("nlArr;" :> "⇍") @@ ("nlarr;" :> "↚") @@ ("nleftarrow;" :> "↚") @@
     ("nleftrightarrow;" :> "↮") @@ ("nltri;" :> "⋪") @@
     ("nltrie;" :> "⋬") @@ ("not" :> "¬") @@ ("not;" :> "¬") @@
     ("notinvb;" :> "⋷") @@ ("notinvc;" :> "⋶") @@ ("notnivb;" :> "⋾") @@
     ("notnivc;" :> "⋽") @@ ("nparsl;" :> "⫽⃥") @@ ("npr;" :> "⊀") @@
     ("nprcue;" :> "⋠") @@ ("nprec;" :> "⊀") @@ ("nrArr;" :> "⇏") @@
     ("nrarr;" :> "↛") @@ ("nrightarrow;" :> "↛") @@ ("nrtri;" :> "⋫") @@
     ("nrtrie;" :> "⋭") @@ ("nsc;" :> "⊁") @@ ("nsccue;" :> "⋡"))
    @@
    (("nsqsube;" :> "⋢") @@ ("nsqsupe;" :> "⋣") @@ ("nsub;" :> "⊄") @@
     ("nsube;" :> "⊈") @@ ("nsubset;" :> "⊂⃒") @@ ("nsubseteq;" :> "⊈") @@
     ("nsucc;" :> "⊁") @@ ("nsup;" :> "⊅") @@ ("nsupe;" :> "⊉") @@
     ("nsupset;" :> "⊃⃒") @@ ("nsupseteq;" :> "⊉") @@ ("ntilde" :> "ñ") @@
     ("ntilde;" :> "ñ") @@ ("ntriangleleft;" :> "⋪") @@
     ("ntrianglelefteq;" :> "⋬") @@ ("ntriangleright;" :> "⋫") @@
     ("ntrianglerighteq;" :> "⋭") @@ ("nu;" :> "ν") @@ ("num;" :> "#") @@
     ("nvDash;" :> "⊭") @@ ("nvdash;" :> "⊬") @@ ("nvgt;" :> ">⃒") @@
     ("nvinfin;" :> "⧞") @@ ("nvlt;" :> "<⃒") @@ ("nvltrie;" :> "⊴⃒") @@
     ("nvrtrie;" :> "⊵⃒") @@ ("nwArr;" :> "⇖") @@ ("nwarr;" :> "↖") @@
     ("nwarrow;" :> "↖") @@ ("oS;" :> "Ⓢ") @@ ("oacute" :> "ó") @@
     ("oacute;" :> "ó") @@ ("oast;" :> "⊛") @@ ("ocir;" :> "⊚") @@
     ("ocirc" :> "ô") @@ ("ocirc;" :> "ô") @@ ("odash;" :> "⊝") @@
     ("odot;" :> "⊙") @@ ("odsold;" :> "⦼") @@ ("ofcir;" :> "⦿"))
    @@
    (("ogon;" :> "˛") @@ ("ograve" :> "ò") @@ ("ograve;" :> "ò") @@
     ("ogt;" :> "⧁") @@ ("ohbar;" :> "⦵") @@ ("ohm;" :> "Ω") @@
     ("olarr;" :> "↺") @@ ("olcir;" :> "⦾") @@ ("olcross;" :> "⦻") @@
     ("olt;" :> "⧀") @@ ("omega;" :> "ω") @@ ("omicron;" :> "ο") @@
     ("omid;" :> "⦶") @@ ("ominus;" :> "⊖") @@ ("opar;" :> "⦷") @@
     ("operp;" :> "⦹") @@ ("oplus;" :> "⊕") @@ ("orarr;" :> "↻") @@
     ("ordf" :> "ª") @@ ("ordf;" :> "ª") @@ ("ordm" :> "º") @@
     ("ordm;" :> "º") @@ ("origof;" :> "⊶") @@ ("oslash" :> "ø") @@
     ("oslash;" :> "ø") @@ ("osol;" :> "⊘") @@ ("otilde" :> "õ") @@
     ("otilde;" :> "õ") @@ ("otimes;" :> "⊗") @@ ("ouml" :> "ö") @@
     ("ouml;" :> "ö") @@ ("para" :> "¶") @@ ("para;" :> "¶") @@
     ("parsim;" :> "⫳") @@ ("parsl;" :> "⫽") @@ ("percnt;" :> "%") @@
     ("period;" :> ".") @@ ("perp;" :> "⊥") @@ ("phi;" :> "φ") @@
     ("phiv;" :> "ϕ"))
    @@
    (("pi;" :> "π") @@ ("pitchfork;" :> "⋔") @@ ("piv;" :> "ϖ") @@
     ("plus;" :> "+") @@ ("plusb;" :> "⊞") @@ ("plusmn" :> "±") @@
     ("plusmn;" :> "±") @@ ("pm;" :> "±") @@ ("pound" :> "£") @@
     ("pound;" :> "£") @@ ("prE;" :> "⪳") @@ ("prap;" :> "⪷") @@
     ("pre;" :> "⪯") @@ ("precapprox;" :> "⪷") @@ ("preceq;" :> "⪯") @@
     ("precnapprox;" :> "⪹") @@ ("precneqq;" :> "⪵") @@
     ("precnsim;" :> "⋨") @@ ("prnE;" :> "⪵") @@ ("prnap;" :> "⪹") @@
     ("prnsim;" :> "⋨") @@ ("prurel;" :> "⊰") @@ ("psi;" :> "ψ") @@
     ("quest;" :> "?") @@ ("quot" :> "\"") @@ ("quot;" :> "\"") @@
     ("rAarr;" :> "⇛") @@ ("rArr;" :> "⇒") @@ ("raemptyv;" :> "⦳") @@
     ("rang;" :> "⟩") @@ ("rangd;" :> "⦒") @@ ("range;" :> "⦥") @@
     ("rangle;" :> "⟩") @@ ("raquo" :> "»") @@ ("raquo;" :> "»") @@
     ("rarr;" :> "→") @@ ("rarrb;" :> "⇥") @@ ("rarrhk;" :> "↪") @@
     ("rarrlp;" :> "↬") @@ ("rarrtl;" :> "↣"))
    @@
    (("rarrw;" :> "↝") @@ ("rbrace;" :> "}") @@ ("rbrack;" :> "]") @@
     ("rbrke;" :> "⦌") @@ ("rbrksld;" :> "⦎") @@ ("rbrkslu;" :> "⦐") @@
     ("rcub;" :> "}") @@ ("rdsh;" :> "↳") @@ ("rect;" :> "▭") @@
     ("reg" :> "®") @@ ("reg;" :> "®") @@ ("rhard;" :> "⇁") @@
     ("rharu;" :> "⇀") @@ ("rho;" :> "ρ") @@ ("rhov;" :> "ϱ") @@
     ("rightarrow;" :> "→") @@ ("rightarrowtail;" :> "↣") @@
     ("rightharpoondown;" :> "⇁") @@ ("rightharpoonup;" :> "⇀") @@
     ("rightleftarrows;" :> "⇄") @@ ("rightleftharpoons;" :> "⇌") @@
     ("rightrightarrows;" :> "⇉") @@ ("rightsquigarrow;" :> "↝") @@
     ("rightthreetimes;" :> "⋌") @@ ("ring;" :> "˚") @@ ("rlarr;" :> "⇄") @@
     ("rlhar;" :> "⇌") @@ ("rmoust;" :> "⎱") @@ ("rmoustache;" :> "⎱") @@
     ("rnmid;" :> "⫮") @@ ("roang;" :> "⟭") @@ ("roarr;" :> "⇾") @@
     ("robrk;" :> "⟧") @@ ("ropar;" :> "⦆") @@ ("rpar;" :> ")") @@
     ("rpargt;" :> "⦔") @@ ("rrarr;" :> "⇉") @@ ("rsh;" :> "↱") @@
     ("rsqb;" :> "]") @@ ("rthree;" :> "⋌"))
    @@
    (("rtimes;" :> "⋊") @@ ("rtri;" :> "▹") @@ ("rtrie;" :> "⊵") @@
     ("rtrif;" :> "▸") @@ ("rtriltri;" :> "⧎") @@ ("scE;" :> "⪴") @@
     ("scap;" :> "⪸") @@ ("sce;" :> "⪰") @@ ("scnE;" :> "⪶") @@
     ("scnap;" :> "⪺") @@ ("scnsim;" :> "⋩") @@ ("sdot;" :> "⋅") @@
     ("sdotb;" :> "⊡") @@ ("seArr;" :> "⇘") @@ ("searr;" :> "↘") @@
     ("searrow;" :> "↘") @@ ("sect" :> "§") @@ ("sect;" :> "§") @@
     ("semi;" :> ";") @@ ("shy" :> "­") @@ ("shy;" :> "­") @@
     ("sigma;" :> "σ") @@ ("sigmaf;" :> "ς") @@ ("sigmav;" :> "ς") @@
     ("simg;" :> "⪞") @@ ("simgE;" :> "⪠") @@ ("siml;" :> "⪝") @@
     ("simlE;" :> "⪟") @@ ("slarr;" :> "←") @@ ("smeparsl;" :> "⧤") @@
     ("smt;" :> "⪪") @@ ("smte;" :> "⪬") @@ ("sol;" :> "/") @@
     ("solb;" :> "⧄") @@ ("sqcap;" :> "⊓") @@ ("sqcup;" :> "⊔") @@
     ("sqsub;" :> "⊏") @@ ("sqsube;" :> "⊑") @@ ("sqsubset;" :> "⊏") @@
     ("sqsubseteq;" :> "⊑"))
    @@
    (("sqsup;" :> "⊐") @@ ("sqsupe;" :> "⊒") @@ ("sqsupset;" :> "⊐") @@
     ("sqsupseteq;" :> "⊒") @@ ("squ;" :> "□") @@ ("square;" :> "□") @@
     ("squarf;" :> "▪") @@ ("squf;" :> "▪") @@ ("srarr;" :> "→") @@
     ("sstarf;" :> "⋆") @@ ("straightepsilon;" :> "ϵ") @@
     ("straightphi;" :> "ϕ") @@ ("strns;" :> "¯") @@ ("sub;" :> "⊂") @@
     ("subE;" :> "⫅") @@ ("subdot;" :> "⪽") @@ ("sube;" :> "⊆") @@
     ("subedot;" :> "⫃") @@ ("submult;" :> "⫁") @@ ("subnE;" :> "⫋") @@
     ("subne;" :> "⊊") @@ ("subplus;" :> "⪿") @@ ("subset;" :> "⊂") @@
     ("subseteq;" :> "⊆") @@ ("subseteqq;" :> "⫅") @@
     ("subsetneq;" :> "⊊") @@ ("subsetneqq;" :> "⫋") @@ ("subsim;" :> "⫇") @@
     ("subsub;" :> "⫕") @@ ("subsup;" :> "⫓") @@ ("succapprox;" :> "⪸") @@
     ("succeq;" :> "⪰") @@ ("succnapprox;" :> "⪺") @@ ("succneqq;" :> "⪶") @@
     ("succnsim;" :> "⋩") @@ ("sup1" :> "¹") @@ ("sup1;" :> "¹") @@
     ("sup2" :> "²") @@ ("sup2;" :> "²") @@ ("sup3" :> "³"))
    @@
    (("sup3;" :> "³") @@ ("sup;" :> "⊃") @@ ("supE;" :> "⫆") @@
     ("supdot;" :> "⪾") @@ ("supdsub;" :> "⫘") @@ ("supe;" :> "⊇") @@
     ("supedot;" :> "⫄") @@ ("suphsol;" :> "⟉") @@ ("suphsub;" :> "⫗") @@
     ("supmult;" :> "⫂") @@ ("supnE;" :> "⫌") @@ ("supne;" :> "⊋") @@
     ("supplus;" :> "⫀") @@ ("supset;" :> "⊃") @@ ("supseteq;" :> "⊇") @@
     ("supseteqq;" :> "⫆") @@ ("supsetneq;" :> "⊋") @@
     ("supsetneqq;" :> "⫌") @@ ("supsim;" :> "⫈") @@ ("supsub;" :> "⫔") @@
     ("supsup;" :> "⫖") @@ ("swArr;" :> "⇙") @@ ("swarr;" :> "↙") @@
     ("swarrow;" :> "↙") @@ ("szlig" :> "ß") @@ ("szlig;" :> "ß") @@
     ("tau;" :> "τ") @@ ("tbrk;" :> "⎴") @@ ("tdot;" :> "⃛") @@
     ("theta;" :> "θ") @@ ("thetasym;" :> "ϑ") @@ ("thetav;" :> "ϑ") @@
     ("thorn" :> "þ") @@ ("thorn;" :> "þ") @@ ("tilde;" :> "˜") @@
     ("times" :> "×") @@ ("times;" :> "×") @@ ("timesb;" :> "⊠") @@
     ("top;" :> "⊤") @@ ("topcir;" :> "⫱"))
    @@
    (("topfork;" :> "⫚") @@ ("triangle;" :> "▵") @@
     ("triangledown;" :> "▿") @@ ("triangleleft;" :> "◃") @@
     ("trianglelefteq;" :> "⊴") @@ ("triangleright;" :> "▹") @@
     ("trianglerighteq;" :> "⊵") @@ ("tridot;" :> "◬") @@
     ("trisb;" :> "⧍") @@ ("trpezium;" :> "⏢") @@
     ("twoheadleftarrow;" :> "↞") @@ ("twoheadrightarrow;" :> "↠") @@
     ("uArr;" :> "⇑") @@ ("uacute" :> "ú") @@ ("uacute;" :> "ú") @@
     ("uarr;" :> "↑") @@ ("ucirc" :> "û") @@ ("ucirc;" :> "û") @@
     ("udarr;" :> "⇅") @@ ("ugrave" :> "ù") @@ ("ugrave;" :> "ù") @@
     ("uharl;" :> "↿") @@ ("uharr;" :> "↾") @@ ("uhblk;" :> "▀") @@
     ("ultri;" :> "◸") @@ ("uml" :> "¨") @@ ("uml;" :> "¨") @@
     ("uparrow;" :> "↑") @@ ("updownarrow;" :> "↕") @@
     ("upharpoonleft;" :> "↿") @@ ("upharpoonright;" :> "↾") @@
     ("uplus;" :> "⊎") @@ ("upsi;" :> "υ") @@ ("upsih;" :> "ϒ") @@
     ("upsilon;" :> "υ") @@ ("upuparrows;" :> "⇈") @@ ("urtri;" :> "◹") @@
     ("utdot;" :> "⋰") @@ ("utri;" :> "▵") @@ ("utrif;" :> "▴"))
    @@
    (("uuarr;" :> "⇈") @@ ("uuml" :> "ü") @@ ("uuml;" :> "ü") @@
     ("uwangle;" :> "⦧") @@ ("vArr;" :> "⇕") @@ ("vBar;" :> "⫨") @@
     ("vBarv;" :> "⫩") @@ ("vDash;" :> "⊨") @@ ("vangrt;" :> "⦜") @@
     ("varepsilon;" :> "ϵ") @@ ("varkappa;" :> "ϰ") @@ ("varphi;" :> "ϕ") @@
     ("varpi;" :> "ϖ") @@ ("varr;" :> "↕") @@ ("varrho;" :> "ϱ") @@
     ("varsigma;" :> "ς") @@ ("vartheta;" :> "ϑ") @@
     ("vartriangleleft;" :> "⊲") @@ ("vartriangleright;" :> "⊳") @@
     ("vdash;" :> "⊢") @@ ("veebar;" :> "⊻") @@ ("vellip;" :> "⋮") @@
     ("verbar;" :> "|") @@ ("vert;" :> "|") @@ ("vltri;" :> "⊲") @@
     ("vnsub;" :> "⊂⃒") @@ ("vnsup;" :> "⊃⃒") @@ ("vrtri;" :> "⊳") @@
     ("vzigzag;" :> "⦚") @@ ("xcap;" :> "⋂") @@ ("xcirc;" :> "◯") @@
     ("xcup;" :> "⋃") @@ ("xdtri;" :> "▽") @@ ("xhArr;" :> "⟺") @@
     ("xharr;" :> "⟷") @@ ("xi;" :> "ξ") @@ ("xlArr;" :> "⟸") @@
     ("xlarr;" :> "⟵") @@ ("xmap;" :> "⟼") @@ ("xnis;" :> "⋻"))
    @@
    (("xrArr;" :> "⟹") @@ ("xrarr;" :> "⟶") @@ ("xutri;" :> "△") @@
     ("xvee;" :> "⋁") @@ ("xwedge;" :> "⋀") @@ ("yacute" :> "ý") @@
     ("yacute;" :> "ý") @@ ("yen" :> "¥") @@ ("yen;" :> "¥") @@
     ("yuml" :> "ÿ") @@ ("yuml;" :> "ÿ") @@ ("zeta;" :> "ζ") @@
     ("zigrarr;" :> "⇝"))

\* the other names of html.entities.html5: a character of theirs is the
\* grave accent, or lies above U+00FF and has a UTF-16 unit with a low byte
\* under 128
HtmlEntitiesUnwritten ==
    {"Abreve;", "Acy;", "Afr;", "Amacr;", "And;", "Aogon;", "Aopf;",
     "ApplyFunction;", "Ascr;", "Assign;", "Backslash;", "Barwed;", "Bcy;",
     "Because;", "Bernoullis;", "Bfr;", "Bopf;", "Bscr;", "Bumpeq;", "CHcy;",
     "Cacute;", "CapitalDifferentialD;", "Cayleys;", "Ccaron;", "Ccirc;",
     "Cconint;", "Cdot;", "Cfr;", "ClockwiseContourIntegral;",
     "CloseCurlyDoubleQuote;", "CloseCurlyQuote;", "Colon;", "Colone;",
     "Congruent;", "Conint;", "ContourIntegral;", "Copf;", "Coproduct;",
     "CounterClockwiseContourIntegral;", "Cross;", "Cscr;", "CupCap;", "DD;",
     "DDotrahd;", "DJcy;", "DScy;", "DZcy;", "Dagger;", "Dcaron;", "Dcy;",
     "Del;", "Dfr;", "DiacriticalGrave;", "DifferentialD;", "Dopf;",
     "DotEqual;", "DoubleContourIntegral;", "DoubleVerticalBar;",
     "DownArrowBar;", "DownBreve;", "DownLeftRightVector;",
     "DownLeftTeeVector;", "DownLeftVectorBar;", "DownRightTeeVector;",
     "DownRightVectorBar;", "Dscr;", "Dstrok;", "ENG;", "Ecaron;", "Ecy;",
     "Edot;", "Efr;", "Element;", "Emacr;", "Eogon;", "Eopf;", "Equal;",
     "EqualTilde;", "Escr;", "Esim;", "Exists;", "ExponentialE;", "Fcy;",
     "Ffr;", "Fopf;", "ForAll;", "Fouriertrf;", "Fscr;", "GJcy;", "Gbreve;",
     "Gcedil;", "Gcirc;", "Gcy;", "Gdot;", "Gfr;", "Gopf;", "GreaterEqual;",
     "GreaterFullEqual;", "GreaterLess;", "GreaterSlantEqual;",
     "GreaterTilde;", "Gscr;", "Gt;", "HARDcy;", "Hcirc;", "Hfr;",
     "HilbertSpace;", "Hopf;", "HorizontalLine;", "Hscr;", "Hstrok;",
     "HumpDownHump;", "HumpEqual;", "IEcy;", "IJlig;", "IOcy;", "Icy;",
     "Idot;", "Ifr;", "Im;", "Imacr;", "ImaginaryI;", "Int;", "Integral;",
     "InvisibleComma;", "InvisibleTimes;", "Iogon;", "Iopf;", "Iscr;",
     "Itilde;", "Iukcy;", "Jcirc;", "Jcy;", "Jfr;", "Jopf;", "Jscr;",
     "Jsercy;", "Jukcy;", "KHcy;", "KJcy;", "Kcedil;", "Kcy;", "Kfr;",
     "Kopf;", "Kscr;", "LJcy;", "Lacute;", "Laplacetrf;", "Lcaron;",
     "Lcedil;", "Lcy;", "LeftCeiling;", "LeftDownTeeVector;",
     "LeftDownVectorBar;", "LeftFloor;", "LeftRightVector;",
     "LeftTeeVector;", "LeftUpDownVector;", "LeftUpTeeVector;",
     "LeftUpVectorBar;", "LeftVectorBar;", "LessFullEqual;", "LessGreater;",
     "LessSlantEqual;", "LessTilde;", "Lfr;", "Lmidot;", "Lopf;", "Lscr;",
     "Lstrok;", "Lt;", "Map;", "Mcy;", "MediumSpace;", "Mellintrf;", "Mfr;",
     "MinusPlus;", "Mopf;", "Mscr;", "NJcy;", "Nacute;", "Ncaron;",
     "Ncedil;", "Ncy;", "NegativeMediumSpace;", "NegativeThickSpace;",
     "NegativeThinSpace;", "NegativeVeryThinSpace;", "NestedGreaterGreater;",
     "NestedLessLess;", "Nfr;", "NoBreak;", "Nopf;", "NotCongruent;",
     "NotCupCap;", "NotDoubleVerticalBar;", "NotElement;", "NotEqual;",
     "NotEqualTilde;", "NotExists;", "NotGreater;", "NotGreaterEqual;",
     "NotGreaterFullEqual;", "NotGreaterGreater;", "NotGreaterLess;",
     "NotGreaterSlantEqual;", "NotGreaterTilde;", "NotHumpDownHump;",
     "NotHumpEqual;", "NotLeftTriangleBar;", "NotLess;", "NotLessEqual;",
     "NotLessGreater;", "NotLessLess;", "NotLessSlantEqual;",
     "NotLessTilde;", "NotNestedGreaterGreater;", "NotNestedLessLess;",
     "NotPrecedesEqual;", "NotReverseElement;", "NotRightTriangleBar;",
     "NotSquareSubset;", "NotSquareSuperset;", "NotSucceedsEqual;",
     "NotSucceedsTilde;", "NotTilde;", "NotTildeEqual;",
     "NotTildeFullEqual;", "NotTildeTilde;", "NotVerticalBar;", "Nscr;",
     "OElig;", "Ocy;", "Odblac;", "Ofr;", "Omacr;", "Oopf;",
     "OpenCurlyDoubleQuote;", "OpenCurlyQuote;", "Or;", "Oscr;", "Otimes;",
     "OverBar;", "PartialD;", "Pcy;", "Pfr;", "Poincareplane;", "Popf;",
     "Precedes;", "PrecedesSlantEqual;", "PrecedesTilde;", "Prime;",
     "Product;", "Proportion;", "Proportional;", "Pscr;", "Qfr;", "Qopf;",
     "Qscr;", "RBarr;", "Racute;", "Rarrtl;", "Rcaron;", "Rcedil;", "Rcy;",
     "Re;", "ReverseElement;", "ReverseUpEquilibrium;", "Rfr;",
     "RightCeiling;", "RightDownTeeVector;", "RightDownVectorBar;",
     "RightFloor;", "RightTeeVector;", "RightUpDownVector;",
     "RightUpTeeVector;", "RightUpVectorBar;", "RightVectorBar;", "Ropf;",
     "RoundImplies;", "Rscr;", "SHCHcy;", "SHcy;", "SOFTcy;", "Sacute;",
     "Scaron;", "Scedil;", "Scirc;", "Scy;", "Sfr;", "SmallCircle;", "Sopf;",
     "Sqrt;", "Sscr;", "Succeeds;", "SucceedsSlantEqual;", "SucceedsTilde;",
     "SuchThat;", "Sum;", "TRADE;", "TSHcy;", "TScy;", "Tcaron;", "Tcedil;",
     "Tcy;", "Tfr;", "Therefore;", "ThickSpace;", "ThinSpace;", "Tilde;",
     "TildeEqual;", "TildeFullEqual;", "TildeTilde;", "Topf;", "Tscr;",
     "Tstrok;", "Uarrocir;", "Ubrcy;", "Ubreve;", "Ucy;", "Udblac;", "Ufr;",
     "Umacr;", "Uogon;", "Uopf;", "UpArrowBar;", "UpEquilibrium;", "Uring;",
     "Uscr;", "Utilde;", "Vcy;", "Verbar;", "Vert;", "VerticalBar;",
     "VerticalSeparator;", "VerticalTilde;", "VeryThinSpace;", "Vfr;",
     "Vopf;", "Vscr;", "Wcirc;", "Wfr;", "Wopf;", "Wscr;", "Xfr;", "Xopf;",
     "Xscr;", "YAcy;", "YIcy;", "YUcy;", "Ycirc;", "Ycy;", "Yfr;", "Yopf;",
     "Yscr;", "Yuml;", "ZHcy;", "Zacute;", "Zcaron;", "Zcy;", "Zdot;",
     "ZeroWidthSpace;", "Zfr;", "Zopf;", "Zscr;", "abreve;", "ac;", "acE;",
     "acd;", "acy;", "af;", "afr;", "alefsym;", "aleph;", "amacr;", "amalg;",
     "and;", "andand;", "andd;", "andslope;", "andv;", "ang;", "angle;",
     "angmsd;", "angrt;", "angsph;", "angzarr;", "aogon;", "aopf;", "ap;",
     "apE;", "apacir;", "ape;", "apid;", "approx;", "approxeq;", "ascr;",
     "asymp;", "asympeq;", "awconint;", "awint;", "backcong;", "backprime;",
     "backsim;", "barwed;", "barwedge;", "bcong;", "bcy;", "bdquo;",
     "becaus;", "because;", "bernou;", "beth;", "between;", "bfr;",
     "bigodot;", "bigoplus;", "bigotimes;", "bigsqcup;", "bigstar;",
     "biguplus;", "bkarow;", "blank;", "bnequiv;", "bnot;", "bopf;",
     "boxDL;", "boxDR;", "boxDl;", "boxDr;", "boxH;", "boxHD;", "boxHU;",
     "boxHd;", "boxHu;", "boxUL;", "boxUR;", "boxUl;", "boxUr;", "boxV;",
     "boxVH;", "boxVL;", "boxVR;", "boxVh;", "boxVl;", "boxVr;", "boxdL;",
     "boxdR;", "boxdl;", "boxdr;", "boxh;", "boxhD;", "boxhU;", "boxhd;",
     "boxhu;", "boxuL;", "boxuR;", "boxul;", "boxur;", "boxv;", "boxvH;",
     "boxvL;", "boxvR;", "boxvh;", "boxvl;", "boxvr;", "bprime;", "bscr;",
     "bsemi;", "bsim;", "bull;", "bullet;", "bump;", "bumpe;", "bumpeq;",
     "cacute;", "cap;", "capand;", "capbrcup;", "capcap;", "capcup;",
     "capdot;", "caps;", "caret;", "ccaps;", "ccaron;", "ccirc;", "ccups;",
     "ccupssm;", "cdot;", "cfr;", "chcy;", "check;", "checkmark;", "circeq;",
     "cire;", "cirfnint;", "clubs;", "clubsuit;", "colone;", "coloneq;",
     "comp;", "compfn;", "complement;", "complexes;", "cong;", "congdot;",
     "conint;", "copf;", "coprod;", "copysr;", "cross;", "cscr;", "cudarrl;",
     "cudarrr;", "cularrp;", "cup;", "cupbrcap;", "cupcap;", "cupcup;",
     "cupor;", "cups;", "curarrm;", "cwconint;", "cwint;", "cylcty;",
     "dHar;", "dagger;", "daleth;", "dash;", "dbkarow;", "dcaron;", "dcy;",
     "dd;", "ddagger;", "ddotseq;", "dfisht;", "dfr;", "diamondsuit;",
     "diams;", "djcy;", "dlcorn;", "dlcrop;", "dopf;", "doteq;", "doteqdot;",
     "dotminus;", "dotplus;", "doublebarwedge;", "drbkarow;", "drcorn;",
     "drcrop;", "dscr;", "dscy;", "dstrok;", "duhar;", "dzcy;", "eDDot;",
     "eDot;", "easter;", "ecaron;", "ecir;", "ecolon;", "ecy;", "edot;",
     "ee;", "efDot;", "efr;", "ell;", "emacr;", "empty;", "emptyset;",
     "emptyv;", "emsp13;", "emsp14;", "emsp;", "eng;", "ensp;", "eogon;",
     "eopf;", "eplus;", "eqcirc;", "eqcolon;", "eqsim;", "equest;", "equiv;",
     "equivDD;", "erDot;", "erarr;", "escr;", "esdot;", "esim;", "exist;",
     "expectation;", "exponentiale;", "fallingdotseq;", "fcy;", "female;",
     "ffilig;", "fflig;", "ffllig;", "ffr;", "filig;", "flat;", "fllig;",
     "fopf;", "forall;", "fpartint;", "frac13;", "frac15;", "frac16;",
     "frac18;", "frac23;", "frac25;", "frac35;", "frac38;", "frac45;",
     "frac56;", "frac58;", "frac78;", "frasl;", "frown;", "fscr;", "gE;",
     "gbreve;", "gcirc;", "gcy;", "gdot;", "ge;", "geq;", "geqq;",
     "geqslant;", "ges;", "gesl;", "gfr;", "gg;", "gimel;", "gjcy;", "gl;",
     "gnE;", "gneqq;", "gopf;", "grave;", "gscr;", "gsim;", "gtcir;",
     "gtquest;", "gtrarr;", "gtrless;", "gtrsim;", "gvertneqq;", "gvnE;",
     "hairsp;", "hamilt;", "hardcy;", "harrcir;", "hbar;", "hcirc;",
     "hearts;", "heartsuit;", "hellip;", "hfr;", "hksearow;", "hkswarow;",
     "homtht;", "hopf;", "horbar;", "hscr;", "hslash;", "hstrok;", "hybull;",
     "hyphen;", "ic;", "icy;", "iecy;", "ifr;", "ii;", "iiiint;", "iiint;",
     "iiota;", "ijlig;", "imacr;", "image;", "imagline;", "imagpart;",
     "imath;", "in;", "incare;", "infin;", "inodot;", "int;", "integers;",
     "intlarhk;", "intprod;", "iocy;", "iogon;", "iopf;", "iprod;", "iscr;",
     "isin;", "isinv;", "it;", "itilde;", "iukcy;", "jcirc;", "jcy;", "jfr;",
     "jmath;", "jopf;", "jscr;", "jsercy;", "jukcy;", "kcedil;", "kcy;",
     "kfr;", "kgreen;", "khcy;", "kjcy;", "kopf;", "kscr;", "lAtail;",
     "lBarr;", "lE;", "lHar;", "lacute;", "lagran;", "larrbfs;", "larrfs;",
     "larrpl;", "larrsim;", "latail;", "lates;", "lbarr;", "lbbrk;",
     "lcaron;", "lcedil;", "lceil;", "lcy;", "ldca;", "ldquo;", "ldquor;",
     "ldrdhar;", "ldrushar;", "le;", "leq;", "leqq;", "leqslant;", "les;",
     "lesdot;", "lesg;", "lessgtr;", "lesssim;", "lfisht;", "lfloor;",
     "lfr;", "lg;", "lharul;", "ljcy;", "ll;", "llcorner;", "llhard;",
     "lmidot;", "lnE;", "lneqq;", "lopf;", "loplus;", "lotimes;", "lowast;",
     "lrcorner;", "lrhard;", "lrm;", "lsaquo;", "lscr;", "lsim;", "lsquo;",
     "lsquor;", "lstrok;", "ltcir;", "ltlarr;", "ltquest;", "lurdshar;",
     "luruhar;", "lvertneqq;", "lvnE;", "mDDot;", "male;", "malt;",
     "maltese;", "mcomma;", "mcy;", "mdash;", "measuredangle;", "mfr;",
     "mho;", "mid;", "minus;", "minusd;", "minusdu;", "mldr;", "mnplus;",
     "mopf;", "mp;", "mscr;", "mstpos;", "nGg;", "nGt;", "nGtv;", "nLl;",
     "nLt;", "nLtv;", "nabla;", "nacute;", "nang;", "nap;", "napE;",
     "napid;", "napos;", "napprox;", "natur;", "natural;", "naturals;",
     "nbump;", "nbumpe;", "ncap;", "ncaron;", "ncedil;", "ncong;",
     "ncongdot;", "ncup;", "ncy;", "ndash;", "ne;", "nearhk;", "nedot;",
     "nequiv;", "nesear;", "nesim;", "nexist;", "nexists;", "nfr;", "ngE;",
     "nge;", "ngeq;", "ngeqq;", "ngeqslant;", "nges;", "ngsim;", "ngt;",
     "ngtr;", "ni;", "niv;", "njcy;", "nlE;", "nldr;", "nle;", "nleq;",
     "nleqq;", "nleqslant;", "nles;", "nless;", "nlsim;", "nlt;", "nmid;",
     "nopf;", "notin;", "notinE;", "notindot;", "notinva;", "notni;",
     "notniva;", "npar;", "nparallel;", "npart;", "npolint;", "npre;",
     "npreceq;", "nrarrc;", "nrarrw;", "nsce;", "nscr;", "nshortmid;",
     "nshortparallel;", "nsim;", "nsime;", "nsimeq;", "nsmid;", "nspar;",
     "nsubE;", "nsubseteqq;", "nsucceq;", "nsupE;", "nsupseteqq;", "ntgl;",
     "ntlg;", "numero;", "numsp;", "nvHarr;", "nvap;", "nvge;", "nvlArr;",
     "nvle;", "nvrArr;", "nvsim;", "nwarhk;", "nwnear;", "ocy;", "odblac;",
     "odiv;", "oelig;", "ofr;", "oint;", "oline;", "omacr;", "oopf;", "or;",
     "ord;", "order;", "orderof;", "oror;", "orslope;", "orv;", "oscr;",
     "otimesas;", "ovbar;", "par;", "parallel;", "part;", "pcy;", "permil;",
     "pertenk;", "pfr;", "phmmat;", "phone;", "planck;", "planckh;",
     "plankv;", "plusacir;", "pluscir;", "plusdo;", "plusdu;", "pluse;",
     "plussim;", "plustwo;", "pointint;", "popf;", "pr;", "prcue;", "prec;",
     "preccurlyeq;", "precsim;", "prime;", "primes;", "prod;", "profalar;",
     "profline;", "profsurf;", "prop;", "propto;", "prsim;", "pscr;",
     "puncsp;", "qfr;", "qint;", "qopf;", "qprime;", "qscr;", "quaternions;",
     "quatint;", "questeq;", "rAtail;", "rBarr;", "rHar;", "race;",
     "racute;", "radic;", "rarrap;", "rarrbfs;", "rarrc;", "rarrfs;",
     "rarrpl;", "rarrsim;", "ratail;", "ratio;", "rationals;", "rbarr;",
     "rbbrk;", "rcaron;", "rcedil;", "rceil;", "rcy;", "rdca;", "rdldhar;",
     "rdquo;", "rdquor;", "real;", "realine;", "realpart;", "reals;",
     "rfisht;", "rfloor;", "rfr;", "rharul;", "risingdotseq;", "rlm;",
     "ropf;", "roplus;", "rotimes;", "rppolint;", "rsaquo;", "rscr;",
     "rsquo;", "rsquor;", "ruluhar;", "rx;", "sacute;", "sbquo;", "sc;",
     "scaron;", "sccue;", "scedil;", "scirc;", "scpolint;", "scsim;", "scy;",
     "sdote;", "searhk;", "seswar;", "setminus;", "setmn;", "sext;", "sfr;",
     "sfrown;", "sharp;", "shchcy;", "shcy;", "shortmid;", "shortparallel;",
     "sim;", "simdot;", "sime;", "simeq;", "simne;", "simplus;", "simrarr;",
     "smallsetminus;", "smashp;", "smid;", "smile;", "smtes;", "softcy;",
     "solbar;", "sopf;", "spades;", "spadesuit;", "spar;", "sqcaps;",
     "sqcups;", "sscr;", "ssetmn;", "ssmile;", "star;", "starf;", "subrarr;",
     "succ;", "succcurlyeq;", "succsim;", "sum;", "sung;", "suplarr;",
     "swarhk;", "swnwar;", "target;", "tcaron;", "tcedil;", "tcy;",
     "telrec;", "tfr;", "there4;", "therefore;", "thickapprox;", "thicksim;",
     "thinsp;", "thkap;", "thksim;", "timesbar;", "timesd;", "tint;",
     "toea;", "topbot;", "topf;", "tosa;", "tprime;", "trade;", "triangleq;",
     "trie;", "triminus;", "triplus;", "tritime;", "tscr;", "tscy;",
     "tshcy;", "tstrok;", "twixt;", "uHar;", "ubrcy;", "ubreve;", "ucy;",
     "udblac;", "udhar;", "ufisht;", "ufr;", "ulcorn;", "ulcorner;",
     "ulcrop;", "umacr;", "uogon;", "uopf;", "urcorn;", "urcorner;",
     "urcrop;", "uring;", "uscr;", "utilde;", "varnothing;", "varpropto;",
     "varsubsetneq;", "varsubsetneqq;", "varsupsetneq;", "varsupsetneqq;",
     "vcy;", "vee;", "veeeq;", "vfr;", "vopf;", "vprop;", "vscr;", "vsubnE;",
     "vsubne;", "vsupnE;", "vsupne;", "wcirc;", "wedbar;", "wedge;",
     "wedgeq;", "weierp;", "wfr;", "wopf;", "wp;", "wr;", "wreath;", "wscr;",
     "xfr;", "xodot;", "xopf;", "xoplus;", "xotime;", "xscr;", "xsqcup;",
     "xuplus;", "yacy;", "ycirc;", "ycy;", "yfr;", "yicy;", "yopf;", "yscr;",
     "yucy;", "zacute;", "zcaron;", "zcy;", "zdot;", "zeetrf;", "zfr;",
     "zhcy;", "zopf;", "zscr;", "zwj;", "zwnj;"
    }

\* A string of this module is a sequence of UTF-16 units, and a character
\* above U+FFFF takes two of them, a high surrogate and a low surrogate;
\* str counts it as one.  A string can hold the surrogates whose low byte is
\* 128 or more: SurrogatePairs holds each of the 512 such high surrogates
\* and each of the 512 such low surrogates once, the k-th high with the
\* k-th low, in the order of their codes.
SurrogatePairs ==
    "𰂀𰒁𰢂𰲃𱂄𱒅𱢆𱲇𲂈𲒉𲢊𲲋𳂌𳒍𳢎𳲏𴂐𴒑𴢒𴲓𵂔𵒕𵢖𵲗𶂘𶒙𶢚𶲛𷂜𷒝𷢞𷲟"
    \o "𸂠𸒡𸢢𸲣𹂤𹒥𹢦𹲧𺂨𺒩𺢪𺲫𻂬𻒭𻢮𻲯𼂰𼒱𼢲𼲳𽂴𽒵𽢶𽲷𾂸𾒹𾢺𾲻𿂼𿒽𿢾𿲿"
    \o "񀃀񀓁񀣂񀳃񁃄񁓅񁣆񁳇񂃈񂓉񂣊񂳋񃃌񃓍񃣎񃳏񄃐񄓑񄣒񄳓񅃔񅓕񅣖񅳗񆃘񆓙񆣚񆳛񇃜񇓝񇣞񇳟"
    \o "񈃠񈓡񈣢񈳣񉃤񉓥񉣦񉳧񊃨񊓩񊣪񊳫񋃬񋓭񋣮񋳯񌃰񌓱񌣲񌳳񍃴񍓵񍣶񍳷񎃸񎓹񎣺񎳻񏃼񏓽񏣾񏳿"
    \o "񰆀񰖁񰦂񰶃񱆄񱖅񱦆񱶇񲆈񲖉񲦊񲶋񳆌񳖍񳦎񳶏񴆐񴖑񴦒񴶓񵆔񵖕񵦖񵶗񶆘񶖙񶦚񶶛񷆜񷖝񷦞񷶟"
    \o "񸆠񸖡񸦢񸶣񹆤񹖥񹦦񹶧񺆨񺖩񺦪񺶫񻆬񻖭񻦮񻶯񼆰񼖱񼦲񼶳񽆴񽖵񽦶񽶷񾆸񾖹񾦺񾶻񿆼񿖽񿦾񿶿"
    \o "򀇀򀗁򀧂򀷃򁇄򁗅򁧆򁷇򂇈򂗉򂧊򂷋򃇌򃗍򃧎򃷏򄇐򄗑򄧒򄷓򅇔򅗕򅧖򅷗򆇘򆗙򆧚򆷛򇇜򇗝򇧞򇷟"
    \o "򈇠򈗡򈧢򈷣򉇤򉗥򉧦򉷧򊇨򊗩򊧪򊷫򋇬򋗭򋧮򋷯򌇰򌗱򌧲򌷳򍇴򍗵򍧶򍷷򎇸򎗹򎧺򎷻򏇼򏗽򏧾򏷿"
    \o "򰊀򰚁򰪂򰺃򱊄򱚅򱪆򱺇򲊈򲚉򲪊򲺋򳊌򳚍򳪎򳺏򴊐򴚑򴪒򴺓򵊔򵚕򵪖򵺗򶊘򶚙򶪚򶺛򷊜򷚝򷪞򷺟"
    \o "򸊠򸚡򸪢򸺣򹊤򹚥򹪦򹺧򺊨򺚩򺪪򺺫򻊬򻚭򻪮򻺯򼊰򼚱򼪲򼺳򽊴򽚵򽪶򽺷򾊸򾚹򾪺򾺻򿊼򿚽򿪾򿺿"
    \o "󀋀󀛁󀫂󀻃󁋄󁛅󁫆󁻇󂋈󂛉󂫊󂻋󃋌󃛍󃫎󃻏󄋐󄛑󄫒󄻓󅋔󅛕󅫖󅻗󆋘󆛙󆫚󆻛󇋜󇛝󇫞󇻟"
    \o "󈋠󈛡󈫢󈻣󉋤󉛥󉫦󉻧󊋨󊛩󊫪󊻫󋋬󋛭󋫮󋻯󌋰󌛱󌫲󌻳󍋴󍛵󍫶󍻷󎋸󎛹󎫺󎻻󏋼󏛽󏫾󏻿"
    \o "󰎀󰞁󰮂󰾃󱎄󱞅󱮆󱾇󲎈󲞉󲮊󲾋󳎌󳞍󳮎󳾏󴎐󴞑󴮒󴾓󵎔󵞕󵮖󵾗󶎘󶞙󶮚󶾛󷎜󷞝󷮞󷾟"
    \o "󸎠󸞡󸮢󸾣󹎤󹞥󹮦󹾧󺎨󺞩󺮪󺾫󻎬󻞭󻮮󻾯󼎰󼞱󼮲󼾳󽎴󽞵󽮶󽾷󾎸󾞹󾮺󾾻󿎼󿞽󿮾󿾿"
    \o "􀏀􀟁􀯂􀿃􁏄􁟅􁯆􁿇􂏈􂟉􂯊􂿋􃏌􃟍􃯎􃿏􄏐􄟑􄯒􄿓􅏔􅟕􅯖􅿗􆏘􆟙􆯚􆿛􇏜􇟝􇯞􇿟"
    \o "􈏠􈟡􈯢􈿣􉏤􉟥􉯦􉿧􊏨􊟩􊯪􊿫􋏬􋟭􋯮􋿯􌏰􌟱􌯲􌿳􍏴􍟵􍯶􍿷􎏸􎟹􎯺􎿻􏏼􏟽􏯾􏿿"
HighSurrogates == {Char(SurrogatePairs, 2 * k - 1) : k \in 1..512}
LowSurrogates == {Char(SurrogatePairs, 2 * k) : k \in 1..512}

\* the positions of s at which a character starts: all but those of a low
\* surrogate that follows a high one
CharStarts(s) ==
    {i \in 1..Len(s) :
        ~(i > 1 /\ Char(s, i) \in LowSurrogates /\ Char(s, i - 1) \in HighSurrogates)}

\* s[:n] of a string, n >= 0: its first n characters or, if it has fewer,
\* all of it (a string of n units has at most n characters)
StrFirstN(s, n) ==
    IF Len(s) <= n \/ Cardinality(CharStarts(s)) <= n THEN s
    ELSE LET starts == CharStarts(s)
         IN  SubSeq(s, 1, (CHOOSE k \in starts :
                              Cardinality({i \in starts : i < k}) = n) - 1)

\* s[-n:] of a string, n >= 1: its last n characters or, if it has fewer,
\* all of it
StrLastN(s, n) ==
    IF Len(s) <= n \/ Cardinality(CharStarts(s)) <= n THEN s
    ELSE LET starts == CharStarts(s)
         IN  SubSeq(s, CHOOSE k \in starts :
                          Cardinality({i \in starts : i >= k}) = n, Len(s))

\* a character no string of this module can hold: the value is left undefined
NoString == CHOOSE c \in {} : TRUE

\* the characters U+0180..U+FFFF whose code has a low byte of 128 or more:
\* BmpChars[hi] holds those of the codes 256 * hi + 128 .. 256 * hi + 255, in
\* order, with "?" in the place of the surrogates and of the non-characters,
\* which chr is never asked for
BmpChars ==
    <<"ƀƁƂƃƄƅƆƇƈƉƊƋƌƍƎƏƐƑƒƓƔƕƖƗƘƙƚƛƜƝƞƟƠơƢƣƤƥƦƧƨƩƪƫƬƭƮƯưƱƲƳƴƵƶƷƸƹƺƻƼƽƾƿǀǁǂǃǄǅǆǇǈǉǊǋǌǍǎǏǐǑǒǓǔǕǖǗǘǙǚǛǜǝǞǟǠǡǢǣǤǥǦǧǨǩǪǫǬǭǮǯǰǱǲǳǴǵǶǷǸǹǺǻǼǽǾǿ",
      "ʀʁʂʃʄʅʆʇʈʉʊʋʌʍʎʏʐʑʒʓʔʕʖʗʘʙʚʛʜʝʞʟʠʡʢʣʤʥʦʧʨʩʪʫʬʭʮʯʰʱʲʳʴʵʶʷʸʹʺʻʼʽʾʿˀˁ˂˃˄˅ˆˇˈˉˊˋˌˍˎˏːˑ˒˓˔˕˖˗˘˙˚˛˜˝˞˟ˠˡˢˣˤ˥˦˧˨˩˪˫ˬ˭ˮ˯˰˱˲˳˴˵˶˷˸˹˺˻˼˽˾˿",
      "΀΁΂΃΄΅Ά·ΈΉΊ΋Ό΍ΎΏΐΑΒΓΔΕΖΗΘΙΚΛΜΝΞΟΠΡ΢ΣΤΥΦΧΨΩΪΫάέήίΰαβγδεζηθικλμνξοπρςστυφχψωϊϋόύώϏϐϑϒϓϔϕϖϗϘϙϚϛϜϝϞϟϠϡϢϣϤϥϦϧϨϩϪϫϬϭϮϯϰϱϲϳϴϵ϶ϷϸϹϺϻϼϽϾϿ",
      "Ҁҁ҂҃҄҅҆҇҈҉ҊҋҌҍҎҏҐґҒғҔҕҖҗҘҙҚқҜҝҞҟҠҡҢңҤҥҦҧҨҩҪҫҬҭҮүҰұҲҳҴҵҶҷҸҹҺһҼҽҾҿӀӁӂӃӄӅӆӇӈӉӊӋӌӍӎӏӐӑӒӓӔӕӖӗӘәӚӛӜӝӞӟӠӡӢӣӤӥӦӧӨөӪӫӬӭӮӯӰӱӲӳӴӵӶӷӸӹӺӻӼӽӾӿ",
      "րցւփքօֆևֈ։֊֋֌֍֎֏֐ְֱֲֳִֵֶַָֹֺֻּֽ֑֖֛֢֣֤֥֦֧֪֚֭֮֒֓֔֕֗֘֙֜֝֞֟֠֡֨֩֫֬֯־ֿ׀ׁׂ׃ׅׄ׆ׇ׈׉׊׋׌׍׎׏אבגדהוזחטיךכלםמןנסעףפץצקרשת׫׬׭׮ׯװױײ׳״׵׶׷׸׹׺׻׼׽׾׿",
      "ڀځڂڃڄڅچڇڈډڊڋڌڍڎڏڐڑڒړڔڕږڗژڙښڛڜڝڞڟڠڡڢڣڤڥڦڧڨکڪګڬڭڮگڰڱڲڳڴڵڶڷڸڹںڻڼڽھڿۀہۂۃۄۅۆۇۈۉۊۋیۍێۏېۑےۓ۔ەۖۗۘۙۚۛۜ۝۞ۣ۟۠ۡۢۤۥۦۧۨ۩۪ۭ۫۬ۮۯ۰۱۲۳۴۵۶۷۸۹ۺۻۼ۽۾ۿ",
      "ހށނރބޅކއވމފދތލގޏސޑޒޓޔޕޖޗޘޙޚޛޜޝޞޟޠޡޢޣޤޥަާިީުޫެޭޮޯްޱ޲޳޴޵޶޷޸޹޺޻޼޽޾޿߀߁߂߃߄߅߆߇߈߉ߊߋߌߍߎߏߐߑߒߓߔߕߖߗߘߙߚߛߜߝߞߟߠߡߢߣߤߥߦߧߨߩߪ߲߫߬߭߮߯߰߱߳ߴߵ߶߷߸߹ߺ߻߼߽߾߿",
      "ࢀࢁࢂࢃࢄࢅࢆࢇ࢈ࢉࢊࢋࢌࢍࢎ࢏࢐࢑࢒࢓࢔࢕࢖࢙࢚࢛ࢗ࢘࢜࢝࢞࢟ࢠࢡࢢࢣࢤࢥࢦࢧࢨࢩࢪࢫࢬࢭࢮࢯࢰࢱࢲࢳࢴࢵࢶࢷࢸࢹࢺࢻࢼࢽࢾࢿࣀࣁࣂࣃࣄࣅࣆࣇࣈࣉ࣏࣐࣑࣒࣓࣊࣋࣌࣍࣎ࣔࣕࣖࣗࣘࣙࣚࣛࣜࣝࣞࣟ࣠࣡࣢ࣰࣱࣲࣣࣦࣩ࣭࣮࣯ࣶࣹࣺࣤࣥࣧࣨ࣪࣫࣬ࣳࣴࣵࣷࣸࣻࣼࣽࣾࣿ",
      "ঀঁংঃ঄অআইঈউঊঋঌ঍঎এঐ঑঒ওঔকখগঘঙচছজঝঞটঠডঢণতথদধন঩পফবভমযর঱ল঳঴঵শষসহ঺঻়ঽািীুূৃৄ৅৆েৈ৉৊োৌ্ৎ৏৐৑৒৓৔৕৖ৗ৘৙৚৛ড়ঢ়৞য়ৠৡৢৣ৤৥০১২৩৪৫৬৭৮৯ৰৱ৲৳৴৵৶৷৸৹৺৻ৼ৽৾৿",
      "઀ઁંઃ઄અઆઇઈઉઊઋઌઍ઎એઐઑ઒ઓઔકખગઘઙચછજઝઞટઠડઢણતથદધન઩પફબભમયર઱લળ઴વશષસહ઺઻઼ઽાિીુૂૃૄૅ૆ેૈૉ૊ોૌ્૎૏ૐ૑૒૓૔૕૖૗૘૙૚૛૜૝૞૟ૠૡૢૣ૤૥૦૧૨૩૪૫૬૭૮૯૰૱૲૳૴૵૶૷૸ૹૺૻૼ૽૾૿",
      "஀஁ஂஃ஄அஆஇஈஉஊ஋஌஍எஏஐ஑ஒஓஔக஖஗஘ஙச஛ஜ஝ஞட஠஡஢ணத஥஦஧நனப஫஬஭மயரறலளழவஶஷஸஹ஺஻஼஽ாிீுூ௃௄௅ெேை௉ொோௌ்௎௏ௐ௑௒௓௔௕௖ௗ௘௙௚௛௜௝௞௟௠௡௢௣௤௥௦௧௨௩௪௫௬௭௮௯௰௱௲௳௴௵௶௷௸௹௺௻௼௽௾௿",
      "ಀಁಂಃ಄ಅಆಇಈಉಊಋಌ಍ಎಏಐ಑ಒಓಔಕಖಗಘಙಚಛಜಝಞಟಠಡಢಣತಥದಧನ಩ಪಫಬಭಮಯರಱಲಳ಴ವಶಷಸಹ಺಻಼ಽಾಿೀುೂೃೄ೅ೆೇೈ೉ೊೋೌ್೎೏೐೑೒೓೔ೕೖ೗೘೙೚೛೜ೝೞ೟ೠೡೢೣ೤೥೦೧೨೩೪೫೬೭೮೯೰ೱೲೳ೴೵೶೷೸೹೺೻೼೽೾೿",
      "඀ඁංඃ඄අආඇඈඉඊඋඌඍඎඏඐඑඒඓඔඕඖ඗඘඙කඛගඝඞඟචඡජඣඤඥඦටඨඩඪණඬතථදධන඲ඳපඵබභමඹයර඼ල඾඿වශෂසහළෆ෇෈෉්෋෌෍෎ාැෑිීු෕ූ෗ෘෙේෛොෝෞෟ෠෡෢෣෤෥෦෧෨෩෪෫෬෭෮෯෰෱ෲෳ෴෵෶෷෸෹෺෻෼෽෾෿",
      "຀ກຂ຃ຄ຅ຆງຈຉຊ຋ຌຍຎຏຐຑຒຓດຕຖທຘນບປຜຝພຟຠມຢຣ຤ລ຦ວຨຩສຫຬອຮຯະັາຳິີຶື຺ຸູົຼຽ຾຿ເແໂໃໄ໅ໆ໇່້໊໋໌ໍ໎໏໐໑໒໓໔໕໖໗໘໙໚໛ໜໝໞໟ໠໡໢໣໤໥໦໧໨໩໪໫໬໭໮໯໰໱໲໳໴໵໶໷໸໹໺໻໼໽໾໿",
      "྄ཱྀྀྂྃ྅྆྇ྈྉྊྋྌྍྎྏྐྑྒྒྷྔྕྖྗ྘ྙྚྛྜྜྷྞྟྠྡྡྷྣྤྥྦྦྷྨྩྪྫྫྷྭྮྯྰྱྲླྴྵྶྷྸྐྵྺྻྼ྽྾྿࿀࿁࿂࿃࿄࿅࿆࿇࿈࿉࿊࿋࿌࿍࿎࿏࿐࿑࿒࿓࿔࿕࿖࿗࿘࿙࿚࿛࿜࿝࿞࿟࿠࿡࿢࿣࿤࿥࿦࿧࿨࿩࿪࿫࿬࿭࿮࿯࿰࿱࿲࿳࿴࿵࿶࿷࿸࿹࿺࿻࿼࿽࿾࿿",
      "ႀႁႂႃႄႅႆႇႈႉႊႋႌႍႎႏ႐႑႒႓႔႕႖႗႘႙ႚႛႜႝ႞႟ႠႡႢႣႤႥႦႧႨႩႪႫႬႭႮႯႰႱႲႳႴႵႶႷႸႹႺႻႼႽႾႿჀჁჂჃჄჅ჆Ⴧ჈჉჊჋჌Ⴭ჎჏აბგდევზთიკლმნოპჟრსტუფქღყშჩცძწჭხჯჰჱჲჳჴჵჶჷჸჹჺ჻ჼჽჾჿ",
      "ᆀᆁᆂᆃᆄᆅᆆᆇᆈᆉᆊᆋᆌᆍᆎᆏᆐᆑᆒᆓᆔᆕᆖᆗᆘᆙᆚᆛᆜᆝᆞᆟᆠᆡᆢᆣᆤᆥᆦᆧᆨᆩᆪᆫᆬᆭᆮᆯᆰᆱᆲᆳᆴᆵᆶᆷᆸᆹᆺᆻᆼᆽᆾᆿᇀᇁᇂᇃᇄᇅᇆᇇᇈᇉᇊᇋᇌᇍᇎᇏᇐᇑᇒᇓᇔᇕᇖᇗᇘᇙᇚᇛᇜᇝᇞᇟᇠᇡᇢᇣᇤᇥᇦᇧᇨᇩᇪᇫᇬᇭᇮᇯᇰᇱᇲᇳᇴᇵᇶᇷᇸᇹᇺᇻᇼᇽᇾᇿ",
      "ኀኁኂኃኄኅኆኇኈ኉ኊኋኌኍ኎኏ነኑኒናኔንኖኗኘኙኚኛኜኝኞኟአኡኢኣኤእኦኧከኩኪካኬክኮኯኰ኱ኲኳኴኵ኶኷ኸኹኺኻኼኽኾ኿ዀ዁ዂዃዄዅ዆዇ወዉዊዋዌውዎዏዐዑዒዓዔዕዖ዗ዘዙዚዛዜዝዞዟዠዡዢዣዤዥዦዧየዩዪያዬይዮዯደዱዲዳዴድዶዷዸዹዺዻዼዽዾዿ",
      "ᎀᎁᎂᎃᎄᎅᎆᎇᎈᎉᎊᎋᎌᎍᎎᎏ᎐᎑᎒᎓᎔᎕᎖᎗᎘᎙᎚᎛᎜᎝᎞᎟ᎠᎡᎢᎣᎤᎥᎦᎧᎨᎩᎪᎫᎬᎭᎮᎯᎰᎱᎲᎳᎴᎵᎶᎷᎸᎹᎺᎻᎼᎽᎾᎿᏀᏁᏂᏃᏄᏅᏆᏇᏈᏉᏊᏋᏌᏍᏎᏏᏐᏑᏒᏓᏔᏕᏖᏗᏘᏙᏚᏛᏜᏝᏞᏟᏠᏡᏢᏣᏤᏥᏦᏧᏨᏩᏪᏫᏬᏭᏮᏯᏰᏱᏲᏳᏴᏵ᏶᏷ᏸᏹᏺᏻᏼᏽ᏾᏿",
      "ᒀᒁᒂᒃᒄᒅᒆᒇᒈᒉᒊᒋᒌᒍᒎᒏᒐᒑᒒᒓᒔᒕᒖᒗᒘᒙᒚᒛᒜᒝᒞᒟᒠᒡᒢᒣᒤᒥᒦᒧᒨᒩᒪᒫᒬᒭᒮᒯᒰᒱᒲᒳᒴᒵᒶᒷᒸᒹᒺᒻᒼᒽᒾᒿᓀᓁᓂᓃᓄᓅᓆᓇᓈᓉᓊᓋᓌᓍᓎᓏᓐᓑᓒᓓᓔᓕᓖᓗᓘᓙᓚᓛᓜᓝᓞᓟᓠᓡᓢᓣᓤᓥᓦᓧᓨᓩᓪᓫᓬᓭᓮᓯᓰᓱᓲᓳᓴᓵᓶᓷᓸᓹᓺᓻᓼᓽᓾᓿ",
      "ᖀᖁᖂᖃᖄᖅᖆᖇᖈᖉᖊᖋᖌᖍᖎᖏᖐᖑᖒᖓᖔᖕᖖᖗᖘᖙᖚᖛᖜᖝᖞᖟᖠᖡᖢᖣᖤᖥᖦᖧᖨᖩᖪᖫᖬᖭᖮᖯᖰᖱᖲᖳᖴᖵᖶᖷᖸᖹᖺᖻᖼᖽᖾᖿᗀᗁᗂᗃᗄᗅᗆᗇᗈᗉᗊᗋᗌᗍᗎᗏᗐᗑᗒᗓᗔᗕᗖᗗᗘᗙᗚᗛᗜᗝᗞᗟᗠᗡᗢᗣᗤᗥᗦᗧᗨᗩᗪᗫᗬᗭᗮᗯᗰᗱᗲᗳᗴᗵᗶᗷᗸᗹᗺᗻᗼᗽᗾᗿ",
      " ᚁᚂᚃᚄᚅᚆᚇᚈᚉᚊᚋᚌᚍᚎᚏᚐᚑᚒᚓᚔᚕᚖᚗᚘᚙᚚ᚛᚜᚝᚞᚟ᚠᚡᚢᚣᚤᚥᚦᚧᚨᚩᚪᚫᚬᚭᚮᚯᚰᚱᚲᚳᚴᚵᚶᚷᚸᚹᚺᚻᚼᚽᚾᚿᛀᛁᛂᛃᛄᛅᛆᛇᛈᛉᛊᛋᛌᛍᛎᛏᛐᛑᛒᛓᛔᛕᛖᛗᛘᛙᛚᛛᛜᛝᛞᛟᛠᛡᛢᛣᛤᛥᛦᛧᛨᛩᛪ᛫᛬᛭ᛮᛯᛰᛱᛲᛳᛴᛵᛶᛷᛸ᛹᛺᛻᛼᛽᛾᛿",
      "កខគឃងចឆជឈញដឋឌឍណតថទធនបផពភមយរលវឝឞសហឡអឣឤឥឦឧឨឩឪឫឬឭឮឯឰឱឲឳ឴឵ាិីឹឺុូួើឿៀេែៃោៅំះៈ៉៊់៌៍៎៏័៑្៓។៕៖ៗ៘៙៚៛ៜ៝៞៟០១២៣៤៥៦៧៨៩៪៫៬៭៮៯៰៱៲៳៴៵៶៷៸៹៺៻៼៽៾៿",
      "ᢀᢁᢂᢃᢄᢅᢆᢇᢈᢉᢊᢋᢌᢍᢎᢏᢐᢑᢒᢓᢔᢕᢖᢗᢘᢙᢚᢛᢜᢝᢞᢟᢠᢡᢢᢣᢤᢥᢦᢧᢨᢩᢪ᢫᢬᢭᢮᢯ᢰᢱᢲᢳᢴᢵᢶᢷᢸᢹᢺᢻᢼᢽᢾᢿᣀᣁᣂᣃᣄᣅᣆᣇᣈᣉᣊᣋᣌᣍᣎᣏᣐᣑᣒᣓᣔᣕᣖᣗᣘᣙᣚᣛᣜᣝᣞᣟᣠᣡᣢᣣᣤᣥᣦᣧᣨᣩᣪᣫᣬᣭᣮᣯᣰᣱᣲᣳᣴᣵ᣶᣷᣸᣹᣺᣻᣼᣽᣾᣿",
      "ᦀᦁᦂᦃᦄᦅᦆᦇᦈᦉᦊᦋᦌᦍᦎᦏᦐᦑᦒᦓᦔᦕᦖᦗᦘᦙᦚᦛᦜᦝᦞᦟᦠᦡᦢᦣᦤᦥᦦᦧᦨᦩᦪᦫ᦬᦭᦮᦯ᦰᦱᦲᦳᦴᦵᦶᦷᦸᦹᦺᦻᦼᦽᦾᦿᧀᧁᧂᧃᧄᧅᧆᧇᧈᧉ᧊᧋᧌᧍᧎᧏᧐᧑᧒᧓᧔᧕᧖᧗᧘᧙᧚᧛᧜᧝᧞᧟᧠᧡᧢᧣᧤᧥᧦᧧᧨᧩᧪᧫᧬᧭᧮᧯᧰᧱᧲᧳᧴᧵᧶᧷᧸᧹᧺᧻᧼᧽᧾᧿",
      "᪀᪁᪂᪃᪄᪅᪆᪇᪈᪉᪊᪋᪌᪍᪎᪏᪐᪑᪒᪓᪔᪕᪖᪗᪘᪙᪚᪛᪜᪝᪞᪟᪠᪡᪢᪣᪤᪥᪦ᪧ᪨᪩᪪᪫᪬᪭᪮᪯᪵᪶᪷᪸᪹᪺᪽᪰᪱᪲᪳᪴᪻᪼᪾ᪿᫀ᫃᫄᫊᫁᫂᫅᫆᫇᫈᫉᫋ᫌᫍᫎ᫏᫐᫑᫒᫓᫔᫕᫖᫗᫘᫙᫚᫛᫜᫝᫞᫟᫠᫡᫢᫣᫤᫥᫦᫧᫨᫩᫪᫫᫬᫭᫮᫯᫰᫱᫲᫳᫴᫵᫶᫷᫸᫹᫺᫻᫼᫽᫾᫿",
      "ᮀᮁᮂᮃᮄᮅᮆᮇᮈᮉᮊᮋᮌᮍᮎᮏᮐᮑᮒᮓᮔᮕᮖᮗᮘᮙᮚᮛᮜᮝᮞᮟᮠᮡᮢᮣᮤᮥᮦᮧᮨᮩ᮪᮫ᮬᮭᮮᮯ᮰᮱᮲᮳᮴᮵᮶᮷᮸᮹ᮺᮻᮼᮽᮾᮿᯀᯁᯂᯃᯄᯅᯆᯇᯈᯉᯊᯋᯌᯍᯎᯏᯐᯑᯒᯓᯔᯕᯖᯗᯘᯙᯚᯛᯜᯝᯞᯟᯠᯡᯢᯣᯤᯥ᯦ᯧᯨᯩᯪᯫᯬᯭᯮᯯᯰᯱ᯲᯳᯴᯵᯶᯷᯸᯹᯺᯻᯼᯽᯾᯿",
      "ᲀᲁᲂᲃᲄᲅᲆᲇᲈᲉᲊ᲋᲌᲍᲎᲏ᲐᲑᲒᲓᲔᲕᲖᲗᲘᲙᲚᲛᲜᲝᲞᲟᲠᲡᲢᲣᲤᲥᲦᲧᲨᲩᲪᲫᲬᲭᲮᲯᲰᲱᲲᲳᲴᲵᲶᲷᲸᲹᲺ᲻᲼ᲽᲾᲿ᳀᳁᳂᳃᳄᳅᳆᳇᳈᳉᳊᳋᳌᳍᳎᳏᳐᳑᳒᳓᳔᳕᳖᳗᳘᳙᳜᳝᳞᳟᳚᳛᳠᳡᳢᳣᳤᳥᳦᳧᳨ᳩᳪᳫᳬ᳭ᳮᳯᳰᳱᳲᳳ᳴ᳵᳶ᳷᳸᳹ᳺ᳻᳼᳽᳾᳿",
      "ᶀᶁᶂᶃᶄᶅᶆᶇᶈᶉᶊᶋᶌᶍᶎᶏᶐᶑᶒᶓᶔᶕᶖᶗᶘᶙᶚᶛᶜᶝᶞᶟᶠᶡᶢᶣᶤᶥᶦᶧᶨᶩᶪᶫᶬᶭᶮᶯᶰᶱᶲᶳᶴᶵᶶᶷᶸᶹᶺᶻᶼᶽᶾᶿ᷐᷎᷺᷂᷊᷏᷹᷽᷿᷷᷸᷀᷁᷃᷄᷅᷆᷇᷈᷉᷋᷌᷑᷒ᷓᷔᷕᷖᷗᷘᷙᷚᷛᷜᷝᷞᷟᷠᷡᷢᷣᷤᷥᷦᷧᷨᷩᷪᷫᷬᷭᷮᷯᷰᷱᷲᷳᷴ᷵᷻᷾᷶᷼᷍",
      "ẀẁẂẃẄẅẆẇẈẉẊẋẌẍẎẏẐẑẒẓẔẕẖẗẘẙẚẛẜẝẞẟẠạẢảẤấẦầẨẩẪẫẬậẮắẰằẲẳẴẵẶặẸẹẺẻẼẽẾếỀềỂểỄễỆệỈỉỊịỌọỎỏỐốỒồỔổỖỗỘộỚớỜờỞởỠỡỢợỤụỦủỨứỪừỬửỮữỰựỲỳỴỵỶỷỸỹỺỻỼỽỾỿ",
      "ᾀᾁᾂᾃᾄᾅᾆᾇᾈᾉᾊᾋᾌᾍᾎᾏᾐᾑᾒᾓᾔᾕᾖᾗᾘᾙᾚᾛᾜᾝᾞᾟᾠᾡᾢᾣᾤᾥᾦᾧᾨᾩᾪᾫᾬᾭᾮᾯᾰᾱᾲᾳᾴ᾵ᾶᾷᾸᾹᾺΆᾼ᾽ι᾿῀῁ῂῃῄ῅ῆῇῈΈῊΉῌ῍῎῏ῐῑῒΐ῔῕ῖῗῘῙῚΊ῜῝῞῟ῠῡῢΰῤῥῦῧῨῩῪΎῬ῭΅`῰῱ῲῳῴ῵ῶῷῸΌῺΏῼ´῾῿",
      "₀₁₂₃₄₅₆₇₈₉₊₋₌₍₎₏ₐₑₒₓₔₕₖₗₘₙₚₛₜ₝₞₟₠₡₢₣₤₥₦₧₨₩₪₫€₭₮₯₰₱₲₳₴₵₶₷₸₹₺₻₼₽₾₿⃀⃁⃂⃃⃄⃅⃆⃇⃈⃉⃊⃋⃌⃍⃎⃏⃒⃓⃘⃙⃚⃐⃑⃔⃕⃖⃗⃛⃜⃝⃞⃟⃠⃡⃢⃣⃤⃥⃦⃪⃫⃨⃬⃭⃮⃯⃧⃩⃰⃱⃲⃳⃴⃵⃶⃷⃸⃹⃺⃻⃼⃽⃾⃿",
      "ↀↁↂↃↄↅↆↇↈ↉↊↋↌↍↎↏←↑→↓↔↕↖↗↘↙↚↛↜↝↞↟↠↡↢↣↤↥↦↧↨↩↪↫↬↭↮↯↰↱↲↳↴↵↶↷↸↹↺↻↼↽↾↿⇀⇁⇂⇃⇄⇅⇆⇇⇈⇉⇊⇋⇌⇍⇎⇏⇐⇑⇒⇓⇔⇕⇖⇗⇘⇙⇚⇛⇜⇝⇞⇟⇠⇡⇢⇣⇤⇥⇦⇧⇨⇩⇪⇫⇬⇭⇮⇯⇰⇱⇲⇳⇴⇵⇶⇷⇸⇹⇺⇻⇼⇽⇾⇿",
      "⊀⊁⊂⊃⊄⊅⊆⊇⊈⊉⊊⊋⊌⊍⊎⊏⊐⊑⊒⊓⊔⊕⊖⊗⊘⊙⊚⊛⊜⊝⊞⊟⊠⊡⊢⊣⊤⊥⊦⊧⊨⊩⊪⊫⊬⊭⊮⊯⊰⊱⊲⊳⊴⊵⊶⊷⊸⊹⊺⊻⊼⊽⊾⊿⋀⋁⋂⋃⋄⋅⋆⋇⋈⋉⋊⋋⋌⋍⋎⋏⋐⋑⋒⋓⋔⋕⋖⋗⋘⋙⋚⋛⋜⋝⋞⋟⋠⋡⋢⋣⋤⋥⋦⋧⋨⋩⋪⋫⋬⋭⋮⋯⋰⋱⋲⋳⋴⋵⋶⋷⋸⋹⋺⋻⋼⋽⋾⋿",
      "⎀⎁⎂⎃⎄⎅⎆⎇⎈⎉⎊⎋⎌⎍⎎⎏⎐⎑⎒⎓⎔⎕⎖⎗⎘⎙⎚⎛⎜⎝⎞⎟⎠⎡⎢⎣⎤⎥⎦⎧⎨⎩⎪⎫⎬⎭⎮⎯⎰⎱⎲⎳⎴⎵⎶⎷⎸⎹⎺⎻⎼⎽⎾⎿⏀⏁⏂⏃⏄⏅⏆⏇⏈⏉⏊⏋⏌⏍⏎⏏⏐⏑⏒⏓⏔⏕⏖⏗⏘⏙⏚⏛⏜⏝⏞⏟⏠⏡⏢⏣⏤⏥⏦⏧⏨⏩⏪⏫⏬⏭⏮⏯⏰⏱⏲⏳⏴⏵⏶⏷⏸⏹⏺⏻⏼⏽⏾⏿",
      "⒀⒁⒂⒃⒄⒅⒆⒇⒈⒉⒊⒋⒌⒍⒎⒏⒐⒑⒒⒓⒔⒕⒖⒗⒘⒙⒚⒛⒜⒝⒞⒟⒠⒡⒢⒣⒤⒥⒦⒧⒨⒩⒪⒫⒬⒭⒮⒯⒰⒱⒲⒳⒴⒵ⒶⒷⒸⒹⒺⒻⒼⒽⒾⒿⓀⓁⓂⓃⓄⓅⓆⓇⓈⓉⓊⓋⓌⓍⓎⓏⓐⓑⓒⓓⓔⓕⓖⓗⓘⓙⓚⓛⓜⓝⓞⓟⓠⓡⓢⓣⓤⓥⓦⓧⓨⓩ⓪⓫⓬⓭⓮⓯⓰⓱⓲⓳⓴⓵⓶⓷⓸⓹⓺⓻⓼⓽⓾⓿",
      "▀▁▂▃▄▅▆▇█▉▊▋▌▍▎▏▐░▒▓▔▕▖▗▘▙▚▛▜▝▞▟■□▢▣▤▥▦▧▨▩▪▫▬▭▮▯▰▱▲△▴▵▶▷▸▹►▻▼▽▾▿◀◁◂◃◄◅◆◇◈◉◊○◌◍◎●◐◑◒◓◔◕◖◗◘◙◚◛◜◝◞◟◠◡◢◣◤◥◦◧◨◩◪◫◬◭◮◯◰◱◲◳◴◵◶◷◸◹◺◻◼◽◾◿",
      "⚀⚁⚂⚃⚄⚅⚆⚇⚈⚉⚊⚋⚌⚍⚎⚏⚐⚑⚒⚓⚔⚕⚖⚗⚘⚙⚚⚛⚜⚝⚞⚟⚠⚡⚢⚣⚤⚥⚦⚧⚨⚩⚪⚫⚬⚭⚮⚯⚰⚱⚲⚳⚴⚵⚶⚷⚸⚹⚺⚻⚼⚽⚾⚿⛀⛁⛂⛃⛄⛅⛆⛇⛈⛉⛊⛋⛌⛍⛎⛏⛐⛑⛒⛓⛔⛕⛖⛗⛘⛙⛚⛛⛜⛝⛞⛟⛠⛡⛢⛣⛤⛥⛦⛧⛨⛩⛪⛫⛬⛭⛮⛯⛰⛱⛲⛳⛴⛵⛶⛷⛸⛹⛺⛻⛼⛽⛾⛿",
      "➀➁➂➃➄➅➆➇➈➉➊➋➌➍➎➏➐➑➒➓➔➕➖➗➘➙➚➛➜➝➞➟➠➡➢➣➤➥➦➧➨➩➪➫➬➭➮➯➰➱➲➳➴➵➶➷➸➹➺➻➼➽➾➿⟀⟁⟂⟃⟄⟅⟆⟇⟈⟉⟊⟋⟌⟍⟎⟏⟐⟑⟒⟓⟔⟕⟖⟗⟘⟙⟚⟛⟜⟝⟞⟟⟠⟡⟢⟣⟤⟥⟦⟧⟨⟩⟪⟫⟬⟭⟮⟯⟰⟱⟲⟳⟴⟵⟶⟷⟸⟹⟺⟻⟼⟽⟾⟿",
      "⢀⢁⢂⢃⢄⢅⢆⢇⢈⢉⢊⢋⢌⢍⢎⢏⢐⢑⢒⢓⢔⢕⢖⢗⢘⢙⢚⢛⢜⢝⢞⢟⢠⢡⢢⢣⢤⢥⢦⢧⢨⢩⢪⢫⢬⢭⢮⢯⢰⢱⢲⢳⢴⢵⢶⢷⢸⢹⢺⢻⢼⢽⢾⢿⣀⣁⣂⣃⣄⣅⣆⣇⣈⣉⣊⣋⣌⣍⣎⣏⣐⣑⣒⣓⣔⣕⣖⣗⣘⣙⣚⣛⣜⣝⣞⣟⣠⣡⣢⣣⣤⣥⣦⣧⣨⣩⣪⣫⣬⣭⣮⣯⣰⣱⣲⣳⣴⣵⣶⣷⣸⣹⣺⣻⣼⣽⣾⣿",
      "⦀⦁⦂⦃⦄⦅⦆⦇⦈⦉⦊⦋⦌⦍⦎⦏⦐⦑⦒⦓⦔⦕⦖⦗⦘⦙⦚⦛⦜⦝⦞⦟⦠⦡⦢⦣⦤⦥⦦⦧⦨⦩⦪⦫⦬⦭⦮⦯⦰⦱⦲⦳⦴⦵⦶⦷⦸⦹⦺⦻⦼⦽⦾⦿⧀⧁⧂⧃⧄⧅⧆⧇⧈⧉⧊⧋⧌⧍⧎⧏⧐⧑⧒⧓⧔⧕⧖⧗⧘⧙⧚⧛⧜⧝⧞⧟⧠⧡⧢⧣⧤⧥⧦⧧⧨⧩⧪⧫⧬⧭⧮⧯⧰⧱⧲⧳⧴⧵⧶⧷⧸⧹⧺⧻⧼⧽⧾⧿",
      "⪀⪁⪂⪃⪄⪅⪆⪇⪈⪉⪊⪋⪌⪍⪎⪏⪐⪑⪒⪓⪔⪕⪖⪗⪘⪙⪚⪛⪜⪝⪞⪟⪠⪡⪢⪣⪤⪥⪦⪧⪨⪩⪪⪫⪬⪭⪮⪯⪰⪱⪲⪳⪴⪵⪶⪷⪸⪹⪺⪻⪼⪽⪾⪿⫀⫁⫂⫃⫄⫅⫆⫇⫈⫉⫊⫋⫌⫍⫎⫏⫐⫑⫒⫓⫔⫕⫖⫗⫘⫙⫚⫛⫝̸⫝⫞⫟⫠⫡⫢⫣⫤⫥⫦⫧⫨⫩⫪⫫⫬⫭⫮⫯⫰⫱⫲⫳⫴⫵⫶⫷⫸⫹⫺⫻⫼⫽⫾⫿",
      "⮀⮁⮂⮃⮄⮅⮆⮇⮈⮉⮊⮋⮌⮍⮎⮏⮐⮑⮒⮓⮔⮕⮖⮗⮘⮙⮚⮛⮜⮝⮞⮟⮠⮡⮢⮣⮤⮥⮦⮧⮨⮩⮪⮫⮬⮭⮮⮯⮰⮱⮲⮳⮴⮵⮶⮷⮸⮹⮺⮻⮼⮽⮾⮿⯀⯁⯂⯃⯄⯅⯆⯇⯈⯉⯊⯋⯌⯍⯎⯏⯐⯑⯒⯓⯔⯕⯖⯗⯘⯙⯚⯛⯜⯝⯞⯟⯠⯡⯢⯣⯤⯥⯦⯧⯨⯩⯪⯫⯬⯭⯮⯯⯰⯱⯲⯳⯴⯵⯶⯷⯸⯹⯺⯻⯼⯽⯾⯿",
      "ⲀⲁⲂⲃⲄⲅⲆⲇⲈⲉⲊⲋⲌⲍⲎⲏⲐⲑⲒⲓⲔⲕⲖⲗⲘⲙⲚⲛⲜⲝⲞⲟⲠⲡⲢⲣⲤⲥⲦⲧⲨⲩⲪⲫⲬⲭⲮⲯⲰⲱⲲⲳⲴⲵⲶⲷⲸⲹⲺⲻⲼⲽⲾⲿⳀⳁⳂⳃⳄⳅⳆⳇⳈⳉⳊⳋⳌⳍⳎⳏⳐⳑⳒⳓⳔⳕⳖⳗⳘⳙⳚⳛⳜⳝⳞⳟⳠⳡⳢⳣⳤ⳥⳦⳧⳨⳩⳪ⳫⳬⳭⳮ⳯⳰⳱Ⳳⳳ⳴⳵⳶⳷⳸⳹⳺⳻⳼⳽⳾⳿",
      "ⶀⶁⶂⶃⶄⶅⶆⶇⶈⶉⶊⶋⶌⶍⶎⶏⶐⶑⶒⶓⶔⶕⶖ⶗⶘⶙⶚⶛⶜⶝⶞⶟ⶠⶡⶢⶣⶤⶥⶦ⶧ⶨⶩⶪⶫⶬⶭⶮ⶯ⶰⶱⶲⶳⶴⶵⶶ⶷ⶸⶹⶺⶻⶼⶽⶾ⶿ⷀⷁⷂⷃⷄⷅⷆ⷇ⷈⷉⷊⷋⷌⷍⷎ⷏ⷐⷑⷒⷓⷔⷕⷖ⷗ⷘⷙⷚⷛⷜⷝⷞ⷟ⷠⷡⷢⷣⷤⷥⷦⷧⷨⷩⷪⷫⷬⷭⷮⷯⷰⷱⷲⷳⷴⷵⷶⷷⷸⷹⷺⷻⷼⷽⷾⷿ",
      "⺀⺁⺂⺃⺄⺅⺆⺇⺈⺉⺊⺋⺌⺍⺎⺏⺐⺑⺒⺓⺔⺕⺖⺗⺘⺙⺚⺛⺜⺝⺞⺟⺠⺡⺢⺣⺤⺥⺦⺧⺨⺩⺪⺫⺬⺭⺮⺯⺰⺱⺲⺳⺴⺵⺶⺷⺸⺹⺺⺻⺼⺽⺾⺿⻀⻁⻂⻃⻄⻅⻆⻇⻈⻉⻊⻋⻌⻍⻎⻏⻐⻑⻒⻓⻔⻕⻖⻗⻘⻙⻚⻛⻜⻝⻞⻟⻠⻡⻢⻣⻤⻥⻦⻧⻨⻩⻪⻫⻬⻭⻮⻯⻰⻱⻲⻳⻴⻵⻶⻷⻸⻹⻺⻻⻼⻽⻾⻿",
      "⾀⾁⾂⾃⾄⾅⾆⾇⾈⾉⾊⾋⾌⾍⾎⾏⾐⾑⾒⾓⾔⾕⾖⾗⾘⾙⾚⾛⾜⾝⾞⾟⾠⾡⾢⾣⾤⾥⾦⾧⾨⾩⾪⾫⾬⾭⾮⾯⾰⾱⾲⾳⾴⾵⾶⾷⾸⾹⾺⾻⾼⾽⾾⾿⿀⿁⿂⿃⿄⿅⿆⿇⿈⿉⿊⿋⿌⿍⿎⿏⿐⿑⿒⿓⿔⿕⿖⿗⿘⿙⿚⿛⿜⿝⿞⿟⿠⿡⿢⿣⿤⿥⿦⿧⿨⿩⿪⿫⿬⿭⿮⿯⿰⿱⿲⿳⿴⿵⿶⿷⿸⿹⿺⿻⿼⿽⿾⿿",
      "むめもゃやゅゆょよらりるれろゎわゐゑをんゔゕゖ゗゘゙゚゛゜ゝゞゟ゠ァアィイゥウェエォオカガキギクグケゲコゴサザシジスズセゼソゾタダチヂッツヅテデトドナニヌネノハバパヒビピフブプヘベペホボポマミムメモャヤュユョヨラリルレロヮワヰヱヲンヴヵヶヷヸヹヺ・ーヽヾヿ",
      "ㆀㆁㆂㆃㆄㆅㆆㆇㆈㆉㆊㆋㆌㆍㆎ㆏㆐㆑㆒㆓㆔㆕㆖㆗㆘㆙㆚㆛㆜㆝㆞㆟ㆠㆡㆢㆣㆤㆥㆦㆧㆨㆩㆪㆫㆬㆭㆮㆯㆰㆱㆲㆳㆴㆵㆶㆷㆸㆹㆺㆻㆼㆽㆾㆿ㇀㇁㇂㇃㇄㇅㇆㇇㇈㇉㇊㇋㇌㇍㇎㇏㇐㇑㇒㇓㇔㇕㇖㇗㇘㇙㇚㇛㇜㇝㇞㇟㇠㇡㇢㇣㇤㇥㇦㇧㇨㇩㇪㇫㇬㇭㇮㇯ㇰㇱㇲㇳㇴㇵㇶㇷㇸㇹㇺㇻㇼㇽㇾㇿ",
      "㊀㊁㊂㊃㊄㊅㊆㊇㊈㊉㊊㊋㊌㊍㊎㊏㊐㊑㊒㊓㊔㊕㊖㊗㊘㊙㊚㊛㊜㊝㊞㊟㊠㊡㊢㊣㊤㊥㊦㊧㊨㊩㊪㊫㊬㊭㊮㊯㊰㊱㊲㊳㊴㊵㊶㊷㊸㊹㊺㊻㊼㊽㊾㊿㋀㋁㋂㋃㋄㋅㋆㋇㋈㋉㋊㋋㋌㋍㋎㋏㋐㋑㋒㋓㋔㋕㋖㋗㋘㋙㋚㋛㋜㋝㋞㋟㋠㋡㋢㋣㋤㋥㋦㋧㋨㋩㋪㋫㋬㋭㋮㋯㋰㋱㋲㋳㋴㋵㋶㋷㋸㋹㋺㋻㋼㋽㋾㋿",
      "㎀㎁㎂㎃㎄㎅㎆㎇㎈㎉㎊㎋㎌㎍㎎㎏㎐㎑㎒㎓㎔㎕㎖㎗㎘㎙㎚㎛㎜㎝㎞㎟㎠㎡㎢㎣㎤㎥㎦㎧㎨㎩㎪㎫㎬㎭㎮㎯㎰㎱㎲㎳㎴㎵㎶㎷㎸㎹㎺㎻㎼㎽㎾㎿㏀㏁㏂㏃㏄㏅㏆㏇㏈㏉㏊㏋㏌㏍㏎㏏㏐㏑㏒㏓㏔㏕㏖㏗㏘㏙㏚㏛㏜㏝㏞㏟㏠㏡㏢㏣㏤㏥㏦㏧㏨㏩㏪㏫㏬㏭㏮㏯㏰㏱㏲㏳㏴㏵㏶㏷㏸㏹㏺㏻㏼㏽㏾㏿",
      "㒀㒁㒂㒃㒄㒅㒆㒇㒈㒉㒊㒋㒌㒍㒎㒏㒐㒑㒒㒓㒔㒕㒖㒗㒘㒙㒚㒛㒜㒝㒞㒟㒠㒡㒢㒣㒤㒥㒦㒧㒨㒩㒪㒫㒬㒭㒮㒯㒰㒱㒲㒳㒴㒵㒶㒷㒸㒹㒺㒻㒼㒽㒾㒿㓀㓁㓂㓃㓄㓅㓆㓇㓈㓉㓊㓋㓌㓍㓎㓏㓐㓑㓒㓓㓔㓕㓖㓗㓘㓙㓚㓛㓜㓝㓞㓟㓠㓡㓢㓣㓤㓥㓦㓧㓨㓩㓪㓫㓬㓭㓮㓯㓰㓱㓲㓳㓴㓵㓶㓷㓸㓹㓺㓻㓼㓽㓾㓿",
      "㖀㖁㖂㖃㖄㖅㖆㖇㖈㖉㖊㖋㖌㖍㖎㖏㖐㖑㖒㖓㖔㖕㖖㖗㖘㖙㖚㖛㖜㖝㖞㖟㖠㖡㖢㖣㖤㖥㖦㖧㖨㖩㖪㖫㖬㖭㖮㖯㖰㖱㖲㖳㖴㖵㖶㖷㖸㖹㖺㖻㖼㖽㖾㖿㗀㗁㗂㗃㗄㗅㗆㗇㗈㗉㗊㗋㗌㗍㗎㗏㗐㗑㗒㗓㗔㗕㗖㗗㗘㗙㗚㗛㗜㗝㗞㗟㗠㗡㗢㗣㗤㗥㗦㗧㗨㗩㗪㗫㗬㗭㗮㗯㗰㗱㗲㗳㗴㗵㗶㗷㗸㗹㗺㗻㗼㗽㗾㗿",
      "㚀㚁㚂㚃㚄㚅㚆㚇㚈㚉㚊㚋㚌㚍㚎㚏㚐㚑㚒㚓㚔㚕㚖㚗㚘㚙㚚㚛㚜㚝㚞㚟㚠㚡㚢㚣㚤㚥㚦㚧㚨㚩㚪㚫㚬㚭㚮㚯㚰㚱㚲㚳㚴㚵㚶㚷㚸㚹㚺㚻㚼㚽㚾㚿㛀㛁㛂㛃㛄㛅㛆㛇㛈㛉㛊㛋㛌㛍㛎㛏㛐㛑㛒㛓㛔㛕㛖㛗㛘㛙㛚㛛㛜㛝㛞㛟㛠㛡㛢㛣㛤㛥㛦㛧㛨㛩㛪㛫㛬㛭㛮㛯㛰㛱㛲㛳㛴㛵㛶㛷㛸㛹㛺㛻㛼㛽㛾㛿",
      "㞀㞁㞂㞃㞄㞅㞆㞇㞈㞉㞊㞋㞌㞍㞎㞏㞐㞑㞒㞓㞔㞕㞖㞗㞘㞙㞚㞛㞜㞝㞞㞟㞠㞡㞢㞣㞤㞥㞦㞧㞨㞩㞪㞫㞬㞭㞮㞯㞰㞱㞲㞳㞴㞵㞶㞷㞸㞹㞺㞻㞼㞽㞾㞿㟀㟁㟂㟃㟄㟅㟆㟇㟈㟉㟊㟋㟌㟍㟎㟏㟐㟑㟒㟓㟔㟕㟖㟗㟘㟙㟚㟛㟜㟝㟞㟟㟠㟡㟢㟣㟤㟥㟦㟧㟨㟩㟪㟫㟬㟭㟮㟯㟰㟱㟲㟳㟴㟵㟶㟷㟸㟹㟺㟻㟼㟽㟾㟿",
      "㢀㢁㢂㢃㢄㢅㢆㢇㢈㢉㢊㢋㢌㢍㢎㢏㢐㢑㢒㢓㢔㢕㢖㢗㢘㢙㢚㢛㢜㢝㢞㢟㢠㢡㢢㢣㢤㢥㢦㢧㢨㢩㢪㢫㢬㢭㢮㢯㢰㢱㢲㢳㢴㢵㢶㢷㢸㢹㢺㢻㢼㢽㢾㢿㣀㣁㣂㣃㣄㣅㣆㣇㣈㣉㣊㣋㣌㣍㣎㣏㣐㣑㣒㣓㣔㣕㣖㣗㣘㣙㣚㣛㣜㣝㣞㣟㣠㣡㣢㣣㣤㣥㣦㣧㣨㣩㣪㣫㣬㣭㣮㣯㣰㣱㣲㣳㣴㣵㣶㣷㣸㣹㣺㣻㣼㣽㣾㣿",
      "㦀㦁㦂㦃㦄㦅㦆㦇㦈㦉㦊㦋㦌㦍㦎㦏㦐㦑㦒㦓㦔㦕㦖㦗㦘㦙㦚㦛㦜㦝㦞㦟㦠㦡㦢㦣㦤㦥㦦㦧㦨㦩㦪㦫㦬㦭㦮㦯㦰㦱㦲㦳㦴㦵㦶㦷㦸㦹㦺㦻㦼㦽㦾㦿㧀㧁㧂㧃㧄㧅㧆㧇㧈㧉㧊㧋㧌㧍㧎㧏㧐㧑㧒㧓㧔㧕㧖㧗㧘㧙㧚㧛㧜㧝㧞㧟㧠㧡㧢㧣㧤㧥㧦㧧㧨㧩㧪㧫㧬㧭㧮㧯㧰㧱㧲㧳㧴㧵㧶㧷㧸㧹㧺㧻㧼㧽㧾㧿",
      "㪀㪁㪂㪃㪄㪅㪆㪇㪈㪉㪊㪋㪌㪍㪎㪏㪐㪑㪒㪓㪔㪕㪖㪗㪘㪙㪚㪛㪜㪝㪞㪟㪠㪡㪢㪣㪤㪥㪦㪧㪨㪩㪪㪫㪬㪭㪮㪯㪰㪱㪲㪳㪴㪵㪶㪷㪸㪹㪺㪻㪼㪽㪾㪿㫀㫁㫂㫃㫄㫅㫆㫇㫈㫉㫊㫋㫌㫍㫎㫏㫐㫑㫒㫓㫔㫕㫖㫗㫘㫙㫚㫛㫜㫝㫞㫟㫠㫡㫢㫣㫤㫥㫦㫧㫨㫩㫪㫫㫬㫭㫮㫯㫰㫱㫲㫳㫴㫵㫶㫷㫸㫹㫺㫻㫼㫽㫾㫿",
      "㮀㮁㮂㮃㮄㮅㮆㮇㮈㮉㮊㮋㮌㮍㮎㮏㮐㮑㮒㮓㮔㮕㮖㮗㮘㮙㮚㮛㮜㮝㮞㮟㮠㮡㮢㮣㮤㮥㮦㮧㮨㮩㮪㮫㮬㮭㮮㮯㮰㮱㮲㮳㮴㮵㮶㮷㮸㮹㮺㮻㮼㮽㮾㮿㯀㯁㯂㯃㯄㯅㯆㯇㯈㯉㯊㯋㯌㯍㯎㯏㯐㯑㯒㯓㯔㯕㯖㯗㯘㯙㯚㯛㯜㯝㯞㯟㯠㯡㯢㯣㯤㯥㯦㯧㯨㯩㯪㯫㯬㯭㯮㯯㯰㯱㯲㯳㯴㯵㯶㯷㯸㯹㯺㯻㯼㯽㯾㯿",
      "㲀㲁㲂㲃㲄㲅㲆㲇㲈㲉㲊㲋㲌㲍㲎㲏㲐㲑㲒㲓㲔㲕㲖㲗㲘㲙㲚㲛㲜㲝㲞㲟㲠㲡㲢㲣㲤㲥㲦㲧㲨㲩㲪㲫㲬㲭㲮㲯㲰㲱㲲㲳㲴㲵㲶㲷㲸㲹㲺㲻㲼㲽㲾㲿㳀㳁㳂㳃㳄㳅㳆㳇㳈㳉㳊㳋㳌㳍㳎㳏㳐㳑㳒㳓㳔㳕㳖㳗㳘㳙㳚㳛㳜㳝㳞㳟㳠㳡㳢㳣㳤㳥㳦㳧㳨㳩㳪㳫㳬㳭㳮㳯㳰㳱㳲㳳㳴㳵㳶㳷㳸㳹㳺㳻㳼㳽㳾㳿",
      "㶀㶁㶂㶃㶄㶅㶆㶇㶈㶉㶊㶋㶌㶍㶎㶏㶐㶑㶒㶓㶔㶕㶖㶗㶘㶙㶚㶛㶜㶝㶞㶟㶠㶡㶢㶣㶤㶥㶦㶧㶨㶩㶪㶫㶬㶭㶮㶯㶰㶱㶲㶳㶴㶵㶶㶷㶸㶹㶺㶻㶼㶽㶾㶿㷀㷁㷂㷃㷄㷅㷆㷇㷈㷉㷊㷋㷌㷍㷎㷏㷐㷑㷒㷓㷔㷕㷖㷗㷘㷙㷚㷛㷜㷝㷞㷟㷠㷡㷢㷣㷤㷥㷦㷧㷨㷩㷪㷫㷬㷭㷮㷯㷰㷱㷲㷳㷴㷵㷶㷷㷸㷹㷺㷻㷼㷽㷾㷿",
      "㺀㺁㺂㺃㺄㺅㺆㺇㺈㺉㺊㺋㺌㺍㺎㺏㺐㺑㺒㺓㺔㺕㺖㺗㺘㺙㺚㺛㺜㺝㺞㺟㺠㺡㺢㺣㺤㺥㺦㺧㺨㺩㺪㺫㺬㺭㺮㺯㺰㺱㺲㺳㺴㺵㺶㺷㺸㺹㺺㺻㺼㺽㺾㺿㻀㻁㻂㻃㻄㻅㻆㻇㻈㻉㻊㻋㻌㻍㻎㻏㻐㻑㻒㻓㻔㻕㻖㻗㻘㻙㻚㻛㻜㻝㻞㻟㻠㻡㻢㻣㻤㻥㻦㻧㻨㻩㻪㻫㻬㻭㻮㻯㻰㻱㻲㻳㻴㻵㻶㻷㻸㻹㻺㻻㻼㻽㻾㻿",
      "㾀㾁㾂㾃㾄㾅㾆㾇㾈㾉㾊㾋㾌㾍㾎㾏㾐㾑㾒㾓㾔㾕㾖㾗㾘㾙㾚㾛㾜㾝㾞㾟㾠㾡㾢㾣㾤㾥㾦㾧㾨㾩㾪㾫㾬㾭㾮㾯㾰㾱㾲㾳㾴㾵㾶㾷㾸㾹㾺㾻㾼㾽㾾㾿㿀㿁㿂㿃㿄㿅㿆㿇㿈㿉㿊㿋㿌㿍㿎㿏㿐㿑㿒㿓㿔㿕㿖㿗㿘㿙㿚㿛㿜㿝㿞㿟㿠㿡㿢㿣㿤㿥㿦㿧㿨㿩㿪㿫㿬㿭㿮㿯㿰㿱㿲㿳㿴㿵㿶㿷㿸㿹㿺㿻㿼㿽㿾㿿",
      "䂀䂁䂂䂃䂄䂅䂆䂇䂈䂉䂊䂋䂌䂍䂎䂏䂐䂑䂒䂓䂔䂕䂖䂗䂘䂙䂚䂛䂜䂝䂞䂟䂠䂡䂢䂣䂤䂥䂦䂧䂨䂩䂪䂫䂬䂭䂮䂯䂰䂱䂲䂳䂴䂵䂶䂷䂸䂹䂺䂻䂼䂽䂾䂿䃀䃁䃂䃃䃄䃅䃆䃇䃈䃉䃊䃋䃌䃍䃎䃏䃐䃑䃒䃓䃔䃕䃖䃗䃘䃙䃚䃛䃜䃝䃞䃟䃠䃡䃢䃣䃤䃥䃦䃧䃨䃩䃪䃫䃬䃭䃮䃯䃰䃱䃲䃳䃴䃵䃶䃷䃸䃹䃺䃻䃼䃽䃾䃿",
      "䆀䆁䆂䆃䆄䆅䆆䆇䆈䆉䆊䆋䆌䆍䆎䆏䆐䆑䆒䆓䆔䆕䆖䆗䆘䆙䆚䆛䆜䆝䆞䆟䆠䆡䆢䆣䆤䆥䆦䆧䆨䆩䆪䆫䆬䆭䆮䆯䆰䆱䆲䆳䆴䆵䆶䆷䆸䆹䆺䆻䆼䆽䆾䆿䇀䇁䇂䇃䇄䇅䇆䇇䇈䇉䇊䇋䇌䇍䇎䇏䇐䇑䇒䇓䇔䇕䇖䇗䇘䇙䇚䇛䇜䇝䇞䇟䇠䇡䇢䇣䇤䇥䇦䇧䇨䇩䇪䇫䇬䇭䇮䇯䇰䇱䇲䇳䇴䇵䇶䇷䇸䇹䇺䇻䇼䇽䇾䇿",
      "䊀䊁䊂䊃䊄䊅䊆䊇䊈䊉䊊䊋䊌䊍䊎䊏䊐䊑䊒䊓䊔䊕䊖䊗䊘䊙䊚䊛䊜䊝䊞䊟䊠䊡䊢䊣䊤䊥䊦䊧䊨䊩䊪䊫䊬䊭䊮䊯䊰䊱䊲䊳䊴䊵䊶䊷䊸䊹䊺䊻䊼䊽䊾䊿䋀䋁䋂䋃䋄䋅䋆䋇䋈䋉䋊䋋䋌䋍䋎䋏䋐䋑䋒䋓䋔䋕䋖䋗䋘䋙䋚䋛䋜䋝䋞䋟䋠䋡䋢䋣䋤䋥䋦䋧䋨䋩䋪䋫䋬䋭䋮䋯䋰䋱䋲䋳䋴䋵䋶䋷䋸䋹䋺䋻䋼䋽䋾䋿",
      "䎀䎁䎂䎃䎄䎅䎆䎇䎈䎉䎊䎋䎌䎍䎎䎏䎐䎑䎒䎓䎔䎕䎖䎗䎘䎙䎚䎛䎜䎝䎞䎟䎠䎡䎢䎣䎤䎥䎦䎧䎨䎩䎪䎫䎬䎭䎮䎯䎰䎱䎲䎳䎴䎵䎶䎷䎸䎹䎺䎻䎼䎽䎾䎿䏀䏁䏂䏃䏄䏅䏆䏇䏈䏉䏊䏋䏌䏍䏎䏏䏐䏑䏒䏓䏔䏕䏖䏗䏘䏙䏚䏛䏜䏝䏞䏟䏠䏡䏢䏣䏤䏥䏦䏧䏨䏩䏪䏫䏬䏭䏮䏯䏰䏱䏲䏳䏴䏵䏶䏷䏸䏹䏺䏻䏼䏽䏾䏿",
      "䒀䒁䒂䒃䒄䒅䒆䒇䒈䒉䒊䒋䒌䒍䒎䒏䒐䒑䒒䒓䒔䒕䒖䒗䒘䒙䒚䒛䒜䒝䒞䒟䒠䒡䒢䒣䒤䒥䒦䒧䒨䒩䒪䒫䒬䒭䒮䒯䒰䒱䒲䒳䒴䒵䒶䒷䒸䒹䒺䒻䒼䒽䒾䒿䓀䓁䓂䓃䓄䓅䓆䓇䓈䓉䓊䓋䓌䓍䓎䓏䓐䓑䓒䓓䓔䓕䓖䓗䓘䓙䓚䓛䓜䓝䓞䓟䓠䓡䓢䓣䓤䓥䓦䓧䓨䓩䓪䓫䓬䓭䓮䓯䓰䓱䓲䓳䓴䓵䓶䓷䓸䓹䓺䓻䓼䓽䓾䓿",
      "䖀䖁䖂䖃䖄䖅䖆䖇䖈䖉䖊䖋䖌䖍䖎䖏䖐䖑䖒䖓䖔䖕䖖䖗䖘䖙䖚䖛䖜䖝䖞䖟䖠䖡䖢䖣䖤䖥䖦䖧䖨䖩䖪䖫䖬䖭䖮䖯䖰䖱䖲䖳䖴䖵䖶䖷䖸䖹䖺䖻䖼䖽䖾䖿䗀䗁䗂䗃䗄䗅䗆䗇䗈䗉䗊䗋䗌䗍䗎䗏䗐䗑䗒䗓䗔䗕䗖䗗䗘䗙䗚䗛䗜䗝䗞䗟䗠䗡䗢䗣䗤䗥䗦䗧䗨䗩䗪䗫䗬䗭䗮䗯䗰䗱䗲䗳䗴䗵䗶䗷䗸䗹䗺䗻䗼䗽䗾䗿",
      "䚀䚁䚂䚃䚄䚅䚆䚇䚈䚉䚊䚋䚌䚍䚎䚏䚐䚑䚒䚓䚔䚕䚖䚗䚘䚙䚚䚛䚜䚝䚞䚟䚠䚡䚢䚣䚤䚥䚦䚧䚨䚩䚪䚫䚬䚭䚮䚯䚰䚱䚲䚳䚴䚵䚶䚷䚸䚹䚺䚻䚼䚽䚾䚿䛀䛁䛂䛃䛄䛅䛆䛇䛈䛉䛊䛋䛌䛍䛎䛏䛐䛑䛒䛓䛔䛕䛖䛗䛘䛙䛚䛛䛜䛝䛞䛟䛠䛡䛢䛣䛤䛥䛦䛧䛨䛩䛪䛫䛬䛭䛮䛯䛰䛱䛲䛳䛴䛵䛶䛷䛸䛹䛺䛻䛼䛽䛾䛿",
      "䞀䞁䞂䞃䞄䞅䞆䞇䞈䞉䞊䞋䞌䞍䞎䞏䞐䞑䞒䞓䞔䞕䞖䞗䞘䞙䞚䞛䞜䞝䞞䞟䞠䞡䞢䞣䞤䞥䞦䞧䞨䞩䞪䞫䞬䞭䞮䞯䞰䞱䞲䞳䞴䞵䞶䞷䞸䞹䞺䞻䞼䞽䞾䞿䟀䟁䟂䟃䟄䟅䟆䟇䟈䟉䟊䟋䟌䟍䟎䟏䟐䟑䟒䟓䟔䟕䟖䟗䟘䟙䟚䟛䟜䟝䟞䟟䟠䟡䟢䟣䟤䟥䟦䟧䟨䟩䟪䟫䟬䟭䟮䟯䟰䟱䟲䟳䟴䟵䟶䟷䟸䟹䟺䟻䟼䟽䟾䟿",
      "䢀䢁䢂䢃䢄䢅䢆䢇䢈䢉䢊䢋䢌䢍䢎䢏䢐䢑䢒䢓䢔䢕䢖䢗䢘䢙䢚䢛䢜䢝䢞䢟䢠䢡䢢䢣䢤䢥䢦䢧䢨䢩䢪䢫䢬䢭䢮䢯䢰䢱䢲䢳䢴䢵䢶䢷䢸䢹䢺䢻䢼䢽䢾䢿䣀䣁䣂䣃䣄䣅䣆䣇䣈䣉䣊䣋䣌䣍䣎䣏䣐䣑䣒䣓䣔䣕䣖䣗䣘䣙䣚䣛䣜䣝䣞䣟䣠䣡䣢䣣䣤䣥䣦䣧䣨䣩䣪䣫䣬䣭䣮䣯䣰䣱䣲䣳䣴䣵䣶䣷䣸䣹䣺䣻䣼䣽䣾䣿",
      "䦀䦁䦂䦃䦄䦅䦆䦇䦈䦉䦊䦋䦌䦍䦎䦏䦐䦑䦒䦓䦔䦕䦖䦗䦘䦙䦚䦛䦜䦝䦞䦟䦠䦡䦢䦣䦤䦥䦦䦧䦨䦩䦪䦫䦬䦭䦮䦯䦰䦱䦲䦳䦴䦵䦶䦷䦸䦹䦺䦻䦼䦽䦾䦿䧀䧁䧂䧃䧄䧅䧆䧇䧈䧉䧊䧋䧌䧍䧎䧏䧐䧑䧒䧓䧔䧕䧖䧗䧘䧙䧚䧛䧜䧝䧞䧟䧠䧡䧢䧣䧤䧥䧦䧧䧨䧩䧪䧫䧬䧭䧮䧯䧰䧱䧲䧳䧴䧵䧶䧷䧸䧹䧺䧻䧼䧽䧾䧿",
      "䪀䪁䪂䪃䪄䪅䪆䪇䪈䪉䪊䪋䪌䪍䪎䪏䪐䪑䪒䪓䪔䪕䪖䪗䪘䪙䪚䪛䪜䪝䪞䪟䪠䪡䪢䪣䪤䪥䪦䪧䪨䪩䪪䪫䪬䪭䪮䪯䪰䪱䪲䪳䪴䪵䪶䪷䪸䪹䪺䪻䪼䪽䪾䪿䫀䫁䫂䫃䫄䫅䫆䫇䫈䫉䫊䫋䫌䫍䫎䫏䫐䫑䫒䫓䫔䫕䫖䫗䫘䫙䫚䫛䫜䫝䫞䫟䫠䫡䫢䫣䫤䫥䫦䫧䫨䫩䫪䫫䫬䫭䫮䫯䫰䫱䫲䫳䫴䫵䫶䫷䫸䫹䫺䫻䫼䫽䫾䫿",
      "䮀䮁䮂䮃䮄䮅䮆䮇䮈䮉䮊䮋䮌䮍䮎䮏䮐䮑䮒䮓䮔䮕䮖䮗䮘䮙䮚䮛䮜䮝䮞䮟䮠䮡䮢䮣䮤䮥䮦䮧䮨䮩䮪䮫䮬䮭䮮䮯䮰䮱䮲䮳䮴䮵䮶䮷䮸䮹䮺䮻䮼䮽䮾䮿䯀䯁䯂䯃䯄䯅䯆䯇䯈䯉䯊䯋䯌䯍䯎䯏䯐䯑䯒䯓䯔䯕䯖䯗䯘䯙䯚䯛䯜䯝䯞䯟䯠䯡䯢䯣䯤䯥䯦䯧䯨䯩䯪䯫䯬䯭䯮䯯䯰䯱䯲䯳䯴䯵䯶䯷䯸䯹䯺䯻䯼䯽䯾䯿",
      "䲀䲁䲂䲃䲄䲅䲆䲇䲈䲉䲊䲋䲌䲍䲎䲏䲐䲑䲒䲓䲔䲕䲖䲗䲘䲙䲚䲛䲜䲝䲞䲟䲠䲡䲢䲣䲤䲥䲦䲧䲨䲩䲪䲫䲬䲭䲮䲯䲰䲱䲲䲳䲴䲵䲶䲷䲸䲹䲺䲻䲼䲽䲾䲿䳀䳁䳂䳃䳄䳅䳆䳇䳈䳉䳊䳋䳌䳍䳎䳏䳐䳑䳒䳓䳔䳕䳖䳗䳘䳙䳚䳛䳜䳝䳞䳟䳠䳡䳢䳣䳤䳥䳦䳧䳨䳩䳪䳫䳬䳭䳮䳯䳰䳱䳲䳳䳴䳵䳶䳷䳸䳹䳺䳻䳼䳽䳾䳿",
      "䶀䶁䶂䶃䶄䶅䶆䶇䶈䶉䶊䶋䶌䶍䶎䶏䶐䶑䶒䶓䶔䶕䶖䶗䶘䶙䶚䶛䶜䶝䶞䶟䶠䶡䶢䶣䶤䶥䶦䶧䶨䶩䶪䶫䶬䶭䶮䶯䶰䶱䶲䶳䶴䶵䶶䶷䶸䶹䶺䶻䶼䶽䶾䶿䷀䷁䷂䷃䷄䷅䷆䷇䷈䷉䷊䷋䷌䷍䷎䷏䷐䷑䷒䷓䷔䷕䷖䷗䷘䷙䷚䷛䷜䷝䷞䷟䷠䷡䷢䷣䷤䷥䷦䷧䷨䷩䷪䷫䷬䷭䷮䷯䷰䷱䷲䷳䷴䷵䷶䷷䷸䷹䷺䷻䷼䷽䷾䷿",
      "亀亁亂亃亄亅了亇予争亊事二亍于亏亐云互亓五井亖亗亘亙亚些亜亝亞亟亠亡亢亣交亥亦产亨亩亪享京亭亮亯亰亱亲亳亴亵亶亷亸亹人亻亼亽亾亿什仁仂仃仄仅仆仇仈仉今介仌仍从仏仐仑仒仓仔仕他仗付仙仚仛仜仝仞仟仠仡仢代令以仦仧仨仩仪仫们仭仮仯仰仱仲仳仴仵件价仸仹仺任仼份仾仿",
      "侀侁侂侃侄侅來侇侈侉侊例侌侍侎侏侐侑侒侓侔侕侖侗侘侙侚供侜依侞侟侠価侢侣侤侥侦侧侨侩侪侫侬侭侮侯侰侱侲侳侴侵侶侷侸侹侺侻侼侽侾便俀俁係促俄俅俆俇俈俉俊俋俌俍俎俏俐俑俒俓俔俕俖俗俘俙俚俛俜保俞俟俠信俢俣俤俥俦俧俨俩俪俫俬俭修俯俰俱俲俳俴俵俶俷俸俹俺俻俼俽俾俿",
      "傀傁傂傃傄傅傆傇傈傉傊傋傌傍傎傏傐傑傒傓傔傕傖傗傘備傚傛傜傝傞傟傠傡傢傣傤傥傦傧储傩傪傫催傭傮傯傰傱傲傳傴債傶傷傸傹傺傻傼傽傾傿僀僁僂僃僄僅僆僇僈僉僊僋僌働僎像僐僑僒僓僔僕僖僗僘僙僚僛僜僝僞僟僠僡僢僣僤僥僦僧僨僩僪僫僬僭僮僯僰僱僲僳僴僵僶僷僸價僺僻僼僽僾僿",
      "冀冁冂冃冄内円冇冈冉冊冋册再冎冏冐冑冒冓冔冕冖冗冘写冚军农冝冞冟冠冡冢冣冤冥冦冧冨冩冪冫冬冭冮冯冰冱冲决冴况冶冷冸冹冺冻冼冽冾冿净凁凂凃凄凅准凇凈凉凊凋凌凍凎减凐凑凒凓凔凕凖凗凘凙凚凛凜凝凞凟几凡凢凣凤凥処凧凨凩凪凫凬凭凮凯凰凱凲凳凴凵凶凷凸凹出击凼函凾凿",
      "劀劁劂劃劄劅劆劇劈劉劊劋劌劍劎劏劐劑劒劓劔劕劖劗劘劙劚力劜劝办功加务劢劣劤劥劦劧动助努劫劬劭劮劯劰励劲劳労劵劶劷劸効劺劻劼劽劾势勀勁勂勃勄勅勆勇勈勉勊勋勌勍勎勏勐勑勒勓勔動勖勗勘務勚勛勜勝勞募勠勡勢勣勤勥勦勧勨勩勪勫勬勭勮勯勰勱勲勳勴勵勶勷勸勹勺勻勼勽勾勿",
      "厀厁厂厃厄厅历厇厈厉厊压厌厍厎厏厐厑厒厓厔厕厖厗厘厙厚厛厜厝厞原厠厡厢厣厤厥厦厧厨厩厪厫厬厭厮厯厰厱厲厳厴厵厶厷厸厹厺去厼厽厾县叀叁参參叄叅叆叇又叉及友双反収叏叐发叒叓叔叕取受变叙叚叛叜叝叞叟叠叡叢口古句另叧叨叩只叫召叭叮可台叱史右叴叵叶号司叹叺叻叼叽叾叿",
      "咀咁咂咃咄咅咆咇咈咉咊咋和咍咎咏咐咑咒咓咔咕咖咗咘咙咚咛咜咝咞咟咠咡咢咣咤咥咦咧咨咩咪咫咬咭咮咯咰咱咲咳咴咵咶咷咸咹咺咻咼咽咾咿哀品哂哃哄哅哆哇哈哉哊哋哌响哎哏哐哑哒哓哔哕哖哗哘哙哚哛哜哝哞哟哠員哢哣哤哥哦哧哨哩哪哫哬哭哮哯哰哱哲哳哴哵哶哷哸哹哺哻哼哽哾哿",
      "喀喁喂喃善喅喆喇喈喉喊喋喌喍喎喏喐喑喒喓喔喕喖喗喘喙喚喛喜喝喞喟喠喡喢喣喤喥喦喧喨喩喪喫喬喭單喯喰喱喲喳喴喵営喷喸喹喺喻喼喽喾喿嗀嗁嗂嗃嗄嗅嗆嗇嗈嗉嗊嗋嗌嗍嗎嗏嗐嗑嗒嗓嗔嗕嗖嗗嗘嗙嗚嗛嗜嗝嗞嗟嗠嗡嗢嗣嗤嗥嗦嗧嗨嗩嗪嗫嗬嗭嗮嗯嗰嗱嗲嗳嗴嗵嗶嗷嗸嗹嗺嗻嗼嗽嗾嗿",
      "嚀嚁嚂嚃嚄嚅嚆嚇嚈嚉嚊嚋嚌嚍嚎嚏嚐嚑嚒嚓嚔嚕嚖嚗嚘嚙嚚嚛嚜嚝嚞嚟嚠嚡嚢嚣嚤嚥嚦嚧嚨嚩嚪嚫嚬嚭嚮嚯嚰嚱嚲嚳嚴嚵嚶嚷嚸嚹嚺嚻嚼嚽嚾嚿囀囁囂囃囄囅囆囇囈囉囊囋囌囍囎囏囐囑囒囓囔囕囖囗囘囙囚四囜囝回囟因囡团団囤囥囦囧囨囩囪囫囬园囮囯困囱囲図围囵囶囷囸囹固囻囼国图囿",
      "垀垁垂垃垄垅垆垇垈垉垊型垌垍垎垏垐垑垒垓垔垕垖垗垘垙垚垛垜垝垞垟垠垡垢垣垤垥垦垧垨垩垪垫垬垭垮垯垰垱垲垳垴垵垶垷垸垹垺垻垼垽垾垿埀埁埂埃埄埅埆埇埈埉埊埋埌埍城埏埐埑埒埓埔埕埖埗埘埙埚埛埜埝埞域埠埡埢埣埤埥埦埧埨埩埪埫埬埭埮埯埰埱埲埳埴埵埶執埸培基埻埼埽埾埿",
      "墀墁墂境墄墅墆墇墈墉墊墋墌墍墎墏墐墑墒墓墔墕墖増墘墙墚墛墜墝增墟墠墡墢墣墤墥墦墧墨墩墪墫墬墭墮墯墰墱墲墳墴墵墶墷墸墹墺墻墼墽墾墿壀壁壂壃壄壅壆壇壈壉壊壋壌壍壎壏壐壑壒壓壔壕壖壗壘壙壚壛壜壝壞壟壠壡壢壣壤壥壦壧壨壩壪士壬壭壮壯声壱売壳壴壵壶壷壸壹壺壻壼壽壾壿",
      "妀妁如妃妄妅妆妇妈妉妊妋妌妍妎妏妐妑妒妓妔妕妖妗妘妙妚妛妜妝妞妟妠妡妢妣妤妥妦妧妨妩妪妫妬妭妮妯妰妱妲妳妴妵妶妷妸妹妺妻妼妽妾妿姀姁姂姃姄姅姆姇姈姉姊始姌姍姎姏姐姑姒姓委姕姖姗姘姙姚姛姜姝姞姟姠姡姢姣姤姥姦姧姨姩姪姫姬姭姮姯姰姱姲姳姴姵姶姷姸姹姺姻姼姽姾姿",
      "媀媁媂媃媄媅媆媇媈媉媊媋媌媍媎媏媐媑媒媓媔媕媖媗媘媙媚媛媜媝媞媟媠媡媢媣媤媥媦媧媨媩媪媫媬媭媮媯媰媱媲媳媴媵媶媷媸媹媺媻媼媽媾媿嫀嫁嫂嫃嫄嫅嫆嫇嫈嫉嫊嫋嫌嫍嫎嫏嫐嫑嫒嫓嫔嫕嫖嫗嫘嫙嫚嫛嫜嫝嫞嫟嫠嫡嫢嫣嫤嫥嫦嫧嫨嫩嫪嫫嫬嫭嫮嫯嫰嫱嫲嫳嫴嫵嫶嫷嫸嫹嫺嫻嫼嫽嫾嫿",
      "宀宁宂它宄宅宆宇守安宊宋完宍宎宏宐宑宒宓宔宕宖宗官宙定宛宜宝实実宠审客宣室宥宦宧宨宩宪宫宬宭宮宯宰宱宲害宴宵家宷宸容宺宻宼宽宾宿寀寁寂寃寄寅密寇寈寉寊寋富寍寎寏寐寑寒寓寔寕寖寗寘寙寚寛寜寝寞察寠寡寢寣寤寥實寧寨審寪寫寬寭寮寯寰寱寲寳寴寵寶寷寸对寺寻导寽対寿",
      "岀岁岂岃岄岅岆岇岈岉岊岋岌岍岎岏岐岑岒岓岔岕岖岗岘岙岚岛岜岝岞岟岠岡岢岣岤岥岦岧岨岩岪岫岬岭岮岯岰岱岲岳岴岵岶岷岸岹岺岻岼岽岾岿峀峁峂峃峄峅峆峇峈峉峊峋峌峍峎峏峐峑峒峓峔峕峖峗峘峙峚峛峜峝峞峟峠峡峢峣峤峥峦峧峨峩峪峫峬峭峮峯峰峱峲峳峴峵島峷峸峹峺峻峼峽峾峿",
      "嶀嶁嶂嶃嶄嶅嶆嶇嶈嶉嶊嶋嶌嶍嶎嶏嶐嶑嶒嶓嶔嶕嶖嶗嶘嶙嶚嶛嶜嶝嶞嶟嶠嶡嶢嶣嶤嶥嶦嶧嶨嶩嶪嶫嶬嶭嶮嶯嶰嶱嶲嶳嶴嶵嶶嶷嶸嶹嶺嶻嶼嶽嶾嶿巀巁巂巃巄巅巆巇巈巉巊巋巌巍巎巏巐巑巒巓巔巕巖巗巘巙巚巛巜川州巟巠巡巢巣巤工左巧巨巩巪巫巬巭差巯巰己已巳巴巵巶巷巸巹巺巻巼巽巾巿",
      "庀庁庂広庄庅庆庇庈庉床庋庌庍庎序庐庑庒库应底庖店庘庙庚庛府庝庞废庠庡庢庣庤庥度座庨庩庪庫庬庭庮庯庰庱庲庳庴庵庶康庸庹庺庻庼庽庾庿廀廁廂廃廄廅廆廇廈廉廊廋廌廍廎廏廐廑廒廓廔廕廖廗廘廙廚廛廜廝廞廟廠廡廢廣廤廥廦廧廨廩廪廫廬廭廮廯廰廱廲廳廴廵延廷廸廹建廻廼廽廾廿",
      "往征徂徃径待徆徇很徉徊律後徍徎徏徐徑徒従徔徕徖得徘徙徚徛徜徝從徟徠御徢徣徤徥徦徧徨復循徫徬徭微徯徰徱徲徳徴徵徶德徸徹徺徻徼徽徾徿忀忁忂心忄必忆忇忈忉忊忋忌忍忎忏忐忑忒忓忔忕忖志忘忙忚忛応忝忞忟忠忡忢忣忤忥忦忧忨忩忪快忬忭忮忯忰忱忲忳忴念忶忷忸忹忺忻忼忽忾忿",
      "悀悁悂悃悄悅悆悇悈悉悊悋悌悍悎悏悐悑悒悓悔悕悖悗悘悙悚悛悜悝悞悟悠悡悢患悤悥悦悧您悩悪悫悬悭悮悯悰悱悲悳悴悵悶悷悸悹悺悻悼悽悾悿惀惁惂惃惄情惆惇惈惉惊惋惌惍惎惏惐惑惒惓惔惕惖惗惘惙惚惛惜惝惞惟惠惡惢惣惤惥惦惧惨惩惪惫惬惭惮惯惰惱惲想惴惵惶惷惸惹惺惻惼惽惾惿",
      "憀憁憂憃憄憅憆憇憈憉憊憋憌憍憎憏憐憑憒憓憔憕憖憗憘憙憚憛憜憝憞憟憠憡憢憣憤憥憦憧憨憩憪憫憬憭憮憯憰憱憲憳憴憵憶憷憸憹憺憻憼憽憾憿懀懁懂懃懄懅懆懇懈應懊懋懌懍懎懏懐懑懒懓懔懕懖懗懘懙懚懛懜懝懞懟懠懡懢懣懤懥懦懧懨懩懪懫懬懭懮懯懰懱懲懳懴懵懶懷懸懹懺懻懼懽懾懿",
      "技抁抂抃抄抅抆抇抈抉把抋抌抍抎抏抐抑抒抓抔投抖抗折抙抚抛抜抝択抟抠抡抢抣护报抦抧抨抩抪披抬抭抮抯抰抱抲抳抴抵抶抷抸抹抺抻押抽抾抿拀拁拂拃拄担拆拇拈拉拊拋拌拍拎拏拐拑拒拓拔拕拖拗拘拙拚招拜拝拞拟拠拡拢拣拤拥拦拧拨择拪拫括拭拮拯拰拱拲拳拴拵拶拷拸拹拺拻拼拽拾拿",
      "掀掁掂掃掄掅掆掇授掉掊掋掌掍掎掏掐掑排掓掔掕掖掗掘掙掚掛掜掝掞掟掠採探掣掤接掦控推掩措掫掬掭掮掯掰掱掲掳掴掵掶掷掸掹掺掻掼掽掾掿揀揁揂揃揄揅揆揇揈揉揊揋揌揍揎描提揑插揓揔揕揖揗揘揙揚換揜揝揞揟揠握揢揣揤揥揦揧揨揩揪揫揬揭揮揯揰揱揲揳援揵揶揷揸揹揺揻揼揽揾揿",
      "撀撁撂撃撄撅撆撇撈撉撊撋撌撍撎撏撐撑撒撓撔撕撖撗撘撙撚撛撜撝撞撟撠撡撢撣撤撥撦撧撨撩撪撫撬播撮撯撰撱撲撳撴撵撶撷撸撹撺撻撼撽撾撿擀擁擂擃擄擅擆擇擈擉擊擋擌操擎擏擐擑擒擓擔擕擖擗擘擙據擛擜擝擞擟擠擡擢擣擤擥擦擧擨擩擪擫擬擭擮擯擰擱擲擳擴擵擶擷擸擹擺擻擼擽擾擿",
      "斀斁斂斃斄斅斆文斈斉斊斋斌斍斎斏斐斑斒斓斔斕斖斗斘料斚斛斜斝斞斟斠斡斢斣斤斥斦斧斨斩斪斫斬断斮斯新斱斲斳斴斵斶斷斸方斺斻於施斾斿旀旁旂旃旄旅旆旇旈旉旊旋旌旍旎族旐旑旒旓旔旕旖旗旘旙旚旛旜旝旞旟无旡既旣旤日旦旧旨早旪旫旬旭旮旯旰旱旲旳旴旵时旷旸旹旺旻旼旽旾旿",
      "暀暁暂暃暄暅暆暇暈暉暊暋暌暍暎暏暐暑暒暓暔暕暖暗暘暙暚暛暜暝暞暟暠暡暢暣暤暥暦暧暨暩暪暫暬暭暮暯暰暱暲暳暴暵暶暷暸暹暺暻暼暽暾暿曀曁曂曃曄曅曆曇曈曉曊曋曌曍曎曏曐曑曒曓曔曕曖曗曘曙曚曛曜曝曞曟曠曡曢曣曤曥曦曧曨曩曪曫曬曭曮曯曰曱曲曳更曵曶曷書曹曺曻曼曽曾替",
      "枀极枂枃构枅枆枇枈枉枊枋枌枍枎枏析枑枒枓枔枕枖林枘枙枚枛果枝枞枟枠枡枢枣枤枥枦枧枨枩枪枫枬枭枮枯枰枱枲枳枴枵架枷枸枹枺枻枼枽枾枿柀柁柂柃柄柅柆柇柈柉柊柋柌柍柎柏某柑柒染柔柕柖柗柘柙柚柛柜柝柞柟柠柡柢柣柤查柦柧柨柩柪柫柬柭柮柯柰柱柲柳柴柵柶柷柸柹柺査柼柽柾柿",
      "梀梁梂梃梄梅梆梇梈梉梊梋梌梍梎梏梐梑梒梓梔梕梖梗梘梙梚梛梜條梞梟梠梡梢梣梤梥梦梧梨梩梪梫梬梭梮梯械梱梲梳梴梵梶梷梸梹梺梻梼梽梾梿检棁棂棃棄棅棆棇棈棉棊棋棌棍棎棏棐棑棒棓棔棕棖棗棘棙棚棛棜棝棞棟棠棡棢棣棤棥棦棧棨棩棪棫棬棭森棯棰棱棲棳棴棵棶棷棸棹棺棻棼棽棾棿",
      "榀榁概榃榄榅榆榇榈榉榊榋榌榍榎榏榐榑榒榓榔榕榖榗榘榙榚榛榜榝榞榟榠榡榢榣榤榥榦榧榨榩榪榫榬榭榮榯榰榱榲榳榴榵榶榷榸榹榺榻榼榽榾榿槀槁槂槃槄槅槆槇槈槉槊構槌槍槎槏槐槑槒槓槔槕槖槗様槙槚槛槜槝槞槟槠槡槢槣槤槥槦槧槨槩槪槫槬槭槮槯槰槱槲槳槴槵槶槷槸槹槺槻槼槽槾槿",
      "檀檁檂檃檄檅檆檇檈檉檊檋檌檍檎檏檐檑檒檓檔檕檖檗檘檙檚檛檜檝檞檟檠檡檢檣檤檥檦檧檨檩檪檫檬檭檮檯檰檱檲檳檴檵檶檷檸檹檺檻檼檽檾檿櫀櫁櫂櫃櫄櫅櫆櫇櫈櫉櫊櫋櫌櫍櫎櫏櫐櫑櫒櫓櫔櫕櫖櫗櫘櫙櫚櫛櫜櫝櫞櫟櫠櫡櫢櫣櫤櫥櫦櫧櫨櫩櫪櫫櫬櫭櫮櫯櫰櫱櫲櫳櫴櫵櫶櫷櫸櫹櫺櫻櫼櫽櫾櫿",
      "殀殁殂殃殄殅殆殇殈殉殊残殌殍殎殏殐殑殒殓殔殕殖殗殘殙殚殛殜殝殞殟殠殡殢殣殤殥殦殧殨殩殪殫殬殭殮殯殰殱殲殳殴段殶殷殸殹殺殻殼殽殾殿毀毁毂毃毄毅毆毇毈毉毊毋毌母毎每毐毑毒毓比毕毖毗毘毙毚毛毜毝毞毟毠毡毢毣毤毥毦毧毨毩毪毫毬毭毮毯毰毱毲毳毴毵毶毷毸毹毺毻毼毽毾毿",
      "沀沁沂沃沄沅沆沇沈沉沊沋沌沍沎沏沐沑沒沓沔沕沖沗沘沙沚沛沜沝沞沟沠没沢沣沤沥沦沧沨沩沪沫沬沭沮沯沰沱沲河沴沵沶沷沸油沺治沼沽沾沿泀況泂泃泄泅泆泇泈泉泊泋泌泍泎泏泐泑泒泓泔法泖泗泘泙泚泛泜泝泞泟泠泡波泣泤泥泦泧注泩泪泫泬泭泮泯泰泱泲泳泴泵泶泷泸泹泺泻泼泽泾泿",
      "涀涁涂涃涄涅涆涇消涉涊涋涌涍涎涏涐涑涒涓涔涕涖涗涘涙涚涛涜涝涞涟涠涡涢涣涤涥润涧涨涩涪涫涬涭涮涯涰涱液涳涴涵涶涷涸涹涺涻涼涽涾涿淀淁淂淃淄淅淆淇淈淉淊淋淌淍淎淏淐淑淒淓淔淕淖淗淘淙淚淛淜淝淞淟淠淡淢淣淤淥淦淧淨淩淪淫淬淭淮淯淰深淲淳淴淵淶混淸淹淺添淼淽淾淿",
      "満溁溂溃溄溅溆溇溈溉溊溋溌溍溎溏源溑溒溓溔溕準溗溘溙溚溛溜溝溞溟溠溡溢溣溤溥溦溧溨溩溪溫溬溭溮溯溰溱溲溳溴溵溶溷溸溹溺溻溼溽溾溿滀滁滂滃滄滅滆滇滈滉滊滋滌滍滎滏滐滑滒滓滔滕滖滗滘滙滚滛滜滝滞滟滠满滢滣滤滥滦滧滨滩滪滫滬滭滮滯滰滱滲滳滴滵滶滷滸滹滺滻滼滽滾滿",
      "澀澁澂澃澄澅澆澇澈澉澊澋澌澍澎澏澐澑澒澓澔澕澖澗澘澙澚澛澜澝澞澟澠澡澢澣澤澥澦澧澨澩澪澫澬澭澮澯澰澱澲澳澴澵澶澷澸澹澺澻澼澽澾澿激濁濂濃濄濅濆濇濈濉濊濋濌濍濎濏濐濑濒濓濔濕濖濗濘濙濚濛濜濝濞濟濠濡濢濣濤濥濦濧濨濩濪濫濬濭濮濯濰濱濲濳濴濵濶濷濸濹濺濻濼濽濾濿",
      "炀炁炂炃炄炅炆炇炈炉炊炋炌炍炎炏炐炑炒炓炔炕炖炗炘炙炚炛炜炝炞炟炠炡炢炣炤炥炦炧炨炩炪炫炬炭炮炯炰炱炲炳炴炵炶炷炸点為炻炼炽炾炿烀烁烂烃烄烅烆烇烈烉烊烋烌烍烎烏烐烑烒烓烔烕烖烗烘烙烚烛烜烝烞烟烠烡烢烣烤烥烦烧烨烩烪烫烬热烮烯烰烱烲烳烴烵烶烷烸烹烺烻烼烽烾烿",
      "熀熁熂熃熄熅熆熇熈熉熊熋熌熍熎熏熐熑熒熓熔熕熖熗熘熙熚熛熜熝熞熟熠熡熢熣熤熥熦熧熨熩熪熫熬熭熮熯熰熱熲熳熴熵熶熷熸熹熺熻熼熽熾熿燀燁燂燃燄燅燆燇燈燉燊燋燌燍燎燏燐燑燒燓燔燕燖燗燘燙燚燛燜燝燞營燠燡燢燣燤燥燦燧燨燩燪燫燬燭燮燯燰燱燲燳燴燵燶燷燸燹燺燻燼燽燾燿",
      "犀犁犂犃犄犅犆犇犈犉犊犋犌犍犎犏犐犑犒犓犔犕犖犗犘犙犚犛犜犝犞犟犠犡犢犣犤犥犦犧犨犩犪犫犬犭犮犯犰犱犲犳犴犵状犷犸犹犺犻犼犽犾犿狀狁狂狃狄狅狆狇狈狉狊狋狌狍狎狏狐狑狒狓狔狕狖狗狘狙狚狛狜狝狞狟狠狡狢狣狤狥狦狧狨狩狪狫独狭狮狯狰狱狲狳狴狵狶狷狸狹狺狻狼狽狾狿",
      "玀玁玂玃玄玅玆率玈玉玊王玌玍玎玏玐玑玒玓玔玕玖玗玘玙玚玛玜玝玞玟玠玡玢玣玤玥玦玧玨玩玪玫玬玭玮环现玱玲玳玴玵玶玷玸玹玺玻玼玽玾玿珀珁珂珃珄珅珆珇珈珉珊珋珌珍珎珏珐珑珒珓珔珕珖珗珘珙珚珛珜珝珞珟珠珡珢珣珤珥珦珧珨珩珪珫珬班珮珯珰珱珲珳珴珵珶珷珸珹珺珻珼珽現珿",
      "璀璁璂璃璄璅璆璇璈璉璊璋璌璍璎璏璐璑璒璓璔璕璖璗璘璙璚璛璜璝璞璟璠璡璢璣璤璥璦璧璨璩璪璫璬璭璮璯環璱璲璳璴璵璶璷璸璹璺璻璼璽璾璿瓀瓁瓂瓃瓄瓅瓆瓇瓈瓉瓊瓋瓌瓍瓎瓏瓐瓑瓒瓓瓔瓕瓖瓗瓘瓙瓚瓛瓜瓝瓞瓟瓠瓡瓢瓣瓤瓥瓦瓧瓨瓩瓪瓫瓬瓭瓮瓯瓰瓱瓲瓳瓴瓵瓶瓷瓸瓹瓺瓻瓼瓽瓾瓿",
      "疀疁疂疃疄疅疆疇疈疉疊疋疌疍疎疏疐疑疒疓疔疕疖疗疘疙疚疛疜疝疞疟疠疡疢疣疤疥疦疧疨疩疪疫疬疭疮疯疰疱疲疳疴疵疶疷疸疹疺疻疼疽疾疿痀痁痂痃痄病痆症痈痉痊痋痌痍痎痏痐痑痒痓痔痕痖痗痘痙痚痛痜痝痞痟痠痡痢痣痤痥痦痧痨痩痪痫痬痭痮痯痰痱痲痳痴痵痶痷痸痹痺痻痼痽痾痿",
      "皀皁皂皃的皅皆皇皈皉皊皋皌皍皎皏皐皑皒皓皔皕皖皗皘皙皚皛皜皝皞皟皠皡皢皣皤皥皦皧皨皩皪皫皬皭皮皯皰皱皲皳皴皵皶皷皸皹皺皻皼皽皾皿盀盁盂盃盄盅盆盇盈盉益盋盌盍盎盏盐监盒盓盔盕盖盗盘盙盚盛盜盝盞盟盠盡盢監盤盥盦盧盨盩盪盫盬盭目盯盰盱盲盳直盵盶盷相盹盺盻盼盽盾盿",
      "瞀瞁瞂瞃瞄瞅瞆瞇瞈瞉瞊瞋瞌瞍瞎瞏瞐瞑瞒瞓瞔瞕瞖瞗瞘瞙瞚瞛瞜瞝瞞瞟瞠瞡瞢瞣瞤瞥瞦瞧瞨瞩瞪瞫瞬瞭瞮瞯瞰瞱瞲瞳瞴瞵瞶瞷瞸瞹瞺瞻瞼瞽瞾瞿矀矁矂矃矄矅矆矇矈矉矊矋矌矍矎矏矐矑矒矓矔矕矖矗矘矙矚矛矜矝矞矟矠矡矢矣矤知矦矧矨矩矪矫矬短矮矯矰矱矲石矴矵矶矷矸矹矺矻矼矽矾矿",
      "碀碁碂碃碄碅碆碇碈碉碊碋碌碍碎碏碐碑碒碓碔碕碖碗碘碙碚碛碜碝碞碟碠碡碢碣碤碥碦碧碨碩碪碫碬碭碮碯碰碱碲碳碴碵碶碷碸碹確碻碼碽碾碿磀磁磂磃磄磅磆磇磈磉磊磋磌磍磎磏磐磑磒磓磔磕磖磗磘磙磚磛磜磝磞磟磠磡磢磣磤磥磦磧磨磩磪磫磬磭磮磯磰磱磲磳磴磵磶磷磸磹磺磻磼磽磾磿",
      "禀禁禂禃禄禅禆禇禈禉禊禋禌禍禎福禐禑禒禓禔禕禖禗禘禙禚禛禜禝禞禟禠禡禢禣禤禥禦禧禨禩禪禫禬禭禮禯禰禱禲禳禴禵禶禷禸禹禺离禼禽禾禿秀私秂秃秄秅秆秇秈秉秊秋秌种秎秏秐科秒秓秔秕秖秗秘秙秚秛秜秝秞租秠秡秢秣秤秥秦秧秨秩秪秫秬秭秮积称秱秲秳秴秵秶秷秸秹秺移秼秽秾秿",
      "窀突窂窃窄窅窆窇窈窉窊窋窌窍窎窏窐窑窒窓窔窕窖窗窘窙窚窛窜窝窞窟窠窡窢窣窤窥窦窧窨窩窪窫窬窭窮窯窰窱窲窳窴窵窶窷窸窹窺窻窼窽窾窿竀竁竂竃竄竅竆竇竈竉竊立竌竍竎竏竐竑竒竓竔竕竖竗竘站竚竛竜竝竞竟章竡竢竣竤童竦竧竨竩竪竫竬竭竮端竰竱竲竳竴竵競竷竸竹竺竻竼竽竾竿",
      "简箁箂箃箄箅箆箇箈箉箊箋箌箍箎箏箐箑箒箓箔箕箖算箘箙箚箛箜箝箞箟箠管箢箣箤箥箦箧箨箩箪箫箬箭箮箯箰箱箲箳箴箵箶箷箸箹箺箻箼箽箾箿節篁篂篃範篅篆篇篈築篊篋篌篍篎篏篐篑篒篓篔篕篖篗篘篙篚篛篜篝篞篟篠篡篢篣篤篥篦篧篨篩篪篫篬篭篮篯篰篱篲篳篴篵篶篷篸篹篺篻篼篽篾篿",
      "粀粁粂粃粄粅粆粇粈粉粊粋粌粍粎粏粐粑粒粓粔粕粖粗粘粙粚粛粜粝粞粟粠粡粢粣粤粥粦粧粨粩粪粫粬粭粮粯粰粱粲粳粴粵粶粷粸粹粺粻粼粽精粿糀糁糂糃糄糅糆糇糈糉糊糋糌糍糎糏糐糑糒糓糔糕糖糗糘糙糚糛糜糝糞糟糠糡糢糣糤糥糦糧糨糩糪糫糬糭糮糯糰糱糲糳糴糵糶糷糸糹糺系糼糽糾糿",
      "綀綁綂綃綄綅綆綇綈綉綊綋綌綍綎綏綐綑綒經綔綕綖綗綘継続綛綜綝綞綟綠綡綢綣綤綥綦綧綨綩綪綫綬維綮綯綰綱網綳綴綵綶綷綸綹綺綻綼綽綾綿緀緁緂緃緄緅緆緇緈緉緊緋緌緍緎総緐緑緒緓緔緕緖緗緘緙線緛緜緝緞緟締緡緢緣緤緥緦緧編緩緪緫緬緭緮緯緰緱緲緳練緵緶緷緸緹緺緻緼緽緾緿",
      "纀纁纂纃纄纅纆纇纈纉纊纋續纍纎纏纐纑纒纓纔纕纖纗纘纙纚纛纜纝纞纟纠纡红纣纤纥约级纨纩纪纫纬纭纮纯纰纱纲纳纴纵纶纷纸纹纺纻纼纽纾线绀绁绂练组绅细织终绉绊绋绌绍绎经绐绑绒结绔绕绖绗绘给绚绛络绝绞统绠绡绢绣绤绥绦继绨绩绪绫绬续绮绯绰绱绲绳维绵绶绷绸绹绺绻综绽绾绿",
      "羀羁羂羃羄羅羆羇羈羉羊羋羌羍美羏羐羑羒羓羔羕羖羗羘羙羚羛羜羝羞羟羠羡羢羣群羥羦羧羨義羪羫羬羭羮羯羰羱羲羳羴羵羶羷羸羹羺羻羼羽羾羿翀翁翂翃翄翅翆翇翈翉翊翋翌翍翎翏翐翑習翓翔翕翖翗翘翙翚翛翜翝翞翟翠翡翢翣翤翥翦翧翨翩翪翫翬翭翮翯翰翱翲翳翴翵翶翷翸翹翺翻翼翽翾翿",
      "肀肁肂肃肄肅肆肇肈肉肊肋肌肍肎肏肐肑肒肓肔肕肖肗肘肙肚肛肜肝肞肟肠股肢肣肤肥肦肧肨肩肪肫肬肭肮肯肰肱育肳肴肵肶肷肸肹肺肻肼肽肾肿胀胁胂胃胄胅胆胇胈胉胊胋背胍胎胏胐胑胒胓胔胕胖胗胘胙胚胛胜胝胞胟胠胡胢胣胤胥胦胧胨胩胪胫胬胭胮胯胰胱胲胳胴胵胶胷胸胹胺胻胼能胾胿",
      "膀膁膂膃膄膅膆膇膈膉膊膋膌膍膎膏膐膑膒膓膔膕膖膗膘膙膚膛膜膝膞膟膠膡膢膣膤膥膦膧膨膩膪膫膬膭膮膯膰膱膲膳膴膵膶膷膸膹膺膻膼膽膾膿臀臁臂臃臄臅臆臇臈臉臊臋臌臍臎臏臐臑臒臓臔臕臖臗臘臙臚臛臜臝臞臟臠臡臢臣臤臥臦臧臨臩自臫臬臭臮臯臰臱臲至致臵臶臷臸臹臺臻臼臽臾臿",
      "芀芁节芃芄芅芆芇芈芉芊芋芌芍芎芏芐芑芒芓芔芕芖芗芘芙芚芛芜芝芞芟芠芡芢芣芤芥芦芧芨芩芪芫芬芭芮芯芰花芲芳芴芵芶芷芸芹芺芻芼芽芾芿苀苁苂苃苄苅苆苇苈苉苊苋苌苍苎苏苐苑苒苓苔苕苖苗苘苙苚苛苜苝苞苟苠苡苢苣苤若苦苧苨苩苪苫苬苭苮苯苰英苲苳苴苵苶苷苸苹苺苻苼苽苾苿",
      "莀莁莂莃莄莅莆莇莈莉莊莋莌莍莎莏莐莑莒莓莔莕莖莗莘莙莚莛莜莝莞莟莠莡莢莣莤莥莦莧莨莩莪莫莬莭莮莯莰莱莲莳莴莵莶获莸莹莺莻莼莽莾莿菀菁菂菃菄菅菆菇菈菉菊菋菌菍菎菏菐菑菒菓菔菕菖菗菘菙菚菛菜菝菞菟菠菡菢菣菤菥菦菧菨菩菪菫菬菭菮華菰菱菲菳菴菵菶菷菸菹菺菻菼菽菾菿",
      "蒀蒁蒂蒃蒄蒅蒆蒇蒈蒉蒊蒋蒌蒍蒎蒏蒐蒑蒒蒓蒔蒕蒖蒗蒘蒙蒚蒛蒜蒝蒞蒟蒠蒡蒢蒣蒤蒥蒦蒧蒨蒩蒪蒫蒬蒭蒮蒯蒰蒱蒲蒳蒴蒵蒶蒷蒸蒹蒺蒻蒼蒽蒾蒿蓀蓁蓂蓃蓄蓅蓆蓇蓈蓉蓊蓋蓌蓍蓎蓏蓐蓑蓒蓓蓔蓕蓖蓗蓘蓙蓚蓛蓜蓝蓞蓟蓠蓡蓢蓣蓤蓥蓦蓧蓨蓩蓪蓫蓬蓭蓮蓯蓰蓱蓲蓳蓴蓵蓶蓷蓸蓹蓺蓻蓼蓽蓾蓿",
      "薀薁薂薃薄薅薆薇薈薉薊薋薌薍薎薏薐薑薒薓薔薕薖薗薘薙薚薛薜薝薞薟薠薡薢薣薤薥薦薧薨薩薪薫薬薭薮薯薰薱薲薳薴薵薶薷薸薹薺薻薼薽薾薿藀藁藂藃藄藅藆藇藈藉藊藋藌藍藎藏藐藑藒藓藔藕藖藗藘藙藚藛藜藝藞藟藠藡藢藣藤藥藦藧藨藩藪藫藬藭藮藯藰藱藲藳藴藵藶藷藸藹藺藻藼藽藾藿",
      "蚀蚁蚂蚃蚄蚅蚆蚇蚈蚉蚊蚋蚌蚍蚎蚏蚐蚑蚒蚓蚔蚕蚖蚗蚘蚙蚚蚛蚜蚝蚞蚟蚠蚡蚢蚣蚤蚥蚦蚧蚨蚩蚪蚫蚬蚭蚮蚯蚰蚱蚲蚳蚴蚵蚶蚷蚸蚹蚺蚻蚼蚽蚾蚿蛀蛁蛂蛃蛄蛅蛆蛇蛈蛉蛊蛋蛌蛍蛎蛏蛐蛑蛒蛓蛔蛕蛖蛗蛘蛙蛚蛛蛜蛝蛞蛟蛠蛡蛢蛣蛤蛥蛦蛧蛨蛩蛪蛫蛬蛭蛮蛯蛰蛱蛲蛳蛴蛵蛶蛷蛸蛹蛺蛻蛼蛽蛾蛿",
      "螀螁螂螃螄螅螆螇螈螉螊螋螌融螎螏螐螑螒螓螔螕螖螗螘螙螚螛螜螝螞螟螠螡螢螣螤螥螦螧螨螩螪螫螬螭螮螯螰螱螲螳螴螵螶螷螸螹螺螻螼螽螾螿蟀蟁蟂蟃蟄蟅蟆蟇蟈蟉蟊蟋蟌蟍蟎蟏蟐蟑蟒蟓蟔蟕蟖蟗蟘蟙蟚蟛蟜蟝蟞蟟蟠蟡蟢蟣蟤蟥蟦蟧蟨蟩蟪蟫蟬蟭蟮蟯蟰蟱蟲蟳蟴蟵蟶蟷蟸蟹蟺蟻蟼蟽蟾蟿",
      "袀袁袂袃袄袅袆袇袈袉袊袋袌袍袎袏袐袑袒袓袔袕袖袗袘袙袚袛袜袝袞袟袠袡袢袣袤袥袦袧袨袩袪被袬袭袮袯袰袱袲袳袴袵袶袷袸袹袺袻袼袽袾袿裀裁裂裃裄装裆裇裈裉裊裋裌裍裎裏裐裑裒裓裔裕裖裗裘裙裚裛補裝裞裟裠裡裢裣裤裥裦裧裨裩裪裫裬裭裮裯裰裱裲裳裴裵裶裷裸裹裺裻裼製裾裿",
      "覀要覂覃覄覅覆覇覈覉覊見覌覍覎規覐覑覒覓覔覕視覗覘覙覚覛覜覝覞覟覠覡覢覣覤覥覦覧覨覩親覫覬覭覮覯覰覱覲観覴覵覶覷覸覹覺覻覼覽覾覿觀见观觃规觅视觇览觉觊觋觌觍觎觏觐觑角觓觔觕觖觗觘觙觚觛觜觝觞觟觠觡觢解觤觥触觧觨觩觪觫觬觭觮觯觰觱觲觳觴觵觶觷觸觹觺觻觼觽觾觿",
      "誀誁誂誃誄誅誆誇誈誉誊誋誌認誎誏誐誑誒誓誔誕誖誗誘誙誚誛誜誝語誟誠誡誢誣誤誥誦誧誨誩說誫説読誮誯誰誱課誳誴誵誶誷誸誹誺誻誼誽誾調諀諁諂諃諄諅諆談諈諉諊請諌諍諎諏諐諑諒諓諔諕論諗諘諙諚諛諜諝諞諟諠諡諢諣諤諥諦諧諨諩諪諫諬諭諮諯諰諱諲諳諴諵諶諷諸諹諺諻諼諽諾諿",
      "讀讁讂讃讄讅讆讇讈讉變讋讌讍讎讏讐讑讒讓讔讕讖讗讘讙讚讛讜讝讞讟讠计订讣认讥讦讧讨让讪讫讬训议讯记讱讲讳讴讵讶讷许讹论讻讼讽设访诀证诂诃评诅识诇诈诉诊诋诌词诎诏诐译诒诓诔试诖诗诘诙诚诛诜话诞诟诠诡询诣诤该详诧诨诩诪诫诬语诮误诰诱诲诳说诵诶请诸诹诺读诼诽课诿",
      "貀貁貂貃貄貅貆貇貈貉貊貋貌貍貎貏貐貑貒貓貔貕貖貗貘貙貚貛貜貝貞貟負財貢貣貤貥貦貧貨販貪貫責貭貮貯貰貱貲貳貴貵貶買貸貹貺費貼貽貾貿賀賁賂賃賄賅賆資賈賉賊賋賌賍賎賏賐賑賒賓賔賕賖賗賘賙賚賛賜賝賞賟賠賡賢賣賤賥賦賧賨賩質賫賬賭賮賯賰賱賲賳賴賵賶賷賸賹賺賻購賽賾賿",
      "趀趁趂趃趄超趆趇趈趉越趋趌趍趎趏趐趑趒趓趔趕趖趗趘趙趚趛趜趝趞趟趠趡趢趣趤趥趦趧趨趩趪趫趬趭趮趯趰趱趲足趴趵趶趷趸趹趺趻趼趽趾趿跀跁跂跃跄跅跆跇跈跉跊跋跌跍跎跏跐跑跒跓跔跕跖跗跘跙跚跛跜距跞跟跠跡跢跣跤跥跦跧跨跩跪跫跬跭跮路跰跱跲跳跴践跶跷跸跹跺跻跼跽跾跿",
      "躀躁躂躃躄躅躆躇躈躉躊躋躌躍躎躏躐躑躒躓躔躕躖躗躘躙躚躛躜躝躞躟躠躡躢躣躤躥躦躧躨躩躪身躬躭躮躯躰躱躲躳躴躵躶躷躸躹躺躻躼躽躾躿軀軁軂軃軄軅軆軇軈軉車軋軌軍軎軏軐軑軒軓軔軕軖軗軘軙軚軛軜軝軞軟軠軡転軣軤軥軦軧軨軩軪軫軬軭軮軯軰軱軲軳軴軵軶軷軸軹軺軻軼軽軾軿",
      "辀辁辂较辄辅辆辇辈辉辊辋辌辍辎辏辐辑辒输辔辕辖辗辘辙辚辛辜辝辞辟辠辡辢辣辤辥辦辧辨辩辪辫辬辭辮辯辰辱農辳辴辵辶辷辸边辺辻込辽达辿迀迁迂迃迄迅迆过迈迉迊迋迌迍迎迏运近迒迓返迕迖迗还这迚进远违连迟迠迡迢迣迤迥迦迧迨迩迪迫迬迭迮迯述迱迲迳迴迵迶迷迸迹迺迻迼追迾迿",
      "邀邁邂邃還邅邆邇邈邉邊邋邌邍邎邏邐邑邒邓邔邕邖邗邘邙邚邛邜邝邞邟邠邡邢那邤邥邦邧邨邩邪邫邬邭邮邯邰邱邲邳邴邵邶邷邸邹邺邻邼邽邾邿郀郁郂郃郄郅郆郇郈郉郊郋郌郍郎郏郐郑郒郓郔郕郖郗郘郙郚郛郜郝郞郟郠郡郢郣郤郥郦郧部郩郪郫郬郭郮郯郰郱郲郳郴郵郶郷郸郹郺郻郼都郾郿",
      "醀醁醂醃醄醅醆醇醈醉醊醋醌醍醎醏醐醑醒醓醔醕醖醗醘醙醚醛醜醝醞醟醠醡醢醣醤醥醦醧醨醩醪醫醬醭醮醯醰醱醲醳醴醵醶醷醸醹醺醻醼醽醾醿釀釁釂釃釄釅釆采釈釉释釋里重野量釐金釒釓釔釕釖釗釘釙釚釛釜針釞釟釠釡釢釣釤釥釦釧釨釩釪釫釬釭釮釯釰釱釲釳釴釵釶釷釸釹釺釻釼釽釾釿",
      "銀銁銂銃銄銅銆銇銈銉銊銋銌銍銎銏銐銑銒銓銔銕銖銗銘銙銚銛銜銝銞銟銠銡銢銣銤銥銦銧銨銩銪銫銬銭銮銯銰銱銲銳銴銵銶銷銸銹銺銻銼銽銾銿鋀鋁鋂鋃鋄鋅鋆鋇鋈鋉鋊鋋鋌鋍鋎鋏鋐鋑鋒鋓鋔鋕鋖鋗鋘鋙鋚鋛鋜鋝鋞鋟鋠鋡鋢鋣鋤鋥鋦鋧鋨鋩鋪鋫鋬鋭鋮鋯鋰鋱鋲鋳鋴鋵鋶鋷鋸鋹鋺鋻鋼鋽鋾鋿",
      "鎀鎁鎂鎃鎄鎅鎆鎇鎈鎉鎊鎋鎌鎍鎎鎏鎐鎑鎒鎓鎔鎕鎖鎗鎘鎙鎚鎛鎜鎝鎞鎟鎠鎡鎢鎣鎤鎥鎦鎧鎨鎩鎪鎫鎬鎭鎮鎯鎰鎱鎲鎳鎴鎵鎶鎷鎸鎹鎺鎻鎼鎽鎾鎿鏀鏁鏂鏃鏄鏅鏆鏇鏈鏉鏊鏋鏌鏍鏎鏏鏐鏑鏒鏓鏔鏕鏖鏗鏘鏙鏚鏛鏜鏝鏞鏟鏠鏡鏢鏣鏤鏥鏦鏧鏨鏩鏪鏫鏬鏭鏮鏯鏰鏱鏲鏳鏴鏵鏶鏷鏸鏹鏺鏻鏼鏽鏾鏿",
      "钀钁钂钃钄钅钆钇针钉钊钋钌钍钎钏钐钑钒钓钔钕钖钗钘钙钚钛钜钝钞钟钠钡钢钣钤钥钦钧钨钩钪钫钬钭钮钯钰钱钲钳钴钵钶钷钸钹钺钻钼钽钾钿铀铁铂铃铄铅铆铇铈铉铊铋铌铍铎铏铐铑铒铓铔铕铖铗铘铙铚铛铜铝铞铟铠铡铢铣铤铥铦铧铨铩铪铫铬铭铮铯铰铱铲铳铴铵银铷铸铹铺铻铼铽链铿",
      "門閁閂閃閄閅閆閇閈閉閊開閌閍閎閏閐閑閒間閔閕閖閗閘閙閚閛閜閝閞閟閠閡関閣閤閥閦閧閨閩閪閫閬閭閮閯閰閱閲閳閴閵閶閷閸閹閺閻閼閽閾閿闀闁闂闃闄闅闆闇闈闉闊闋闌闍闎闏闐闑闒闓闔闕闖闗闘闙闚闛關闝闞闟闠闡闢闣闤闥闦闧门闩闪闫闬闭问闯闰闱闲闳间闵闶闷闸闹闺闻闼闽闾闿",
      "隀隁隂隃隄隅隆隇隈隉隊隋隌隍階随隐隑隒隓隔隕隖隗隘隙隚際障隝隞隟隠隡隢隣隤隥隦隧隨隩險隫隬隭隮隯隰隱隲隳隴隵隶隷隸隹隺隻隼隽难隿雀雁雂雃雄雅集雇雈雉雊雋雌雍雎雏雐雑雒雓雔雕雖雗雘雙雚雛雜雝雞雟雠雡離難雤雥雦雧雨雩雪雫雬雭雮雯雰雱雲雳雴雵零雷雸雹雺電雼雽雾雿",
      "鞀鞁鞂鞃鞄鞅鞆鞇鞈鞉鞊鞋鞌鞍鞎鞏鞐鞑鞒鞓鞔鞕鞖鞗鞘鞙鞚鞛鞜鞝鞞鞟鞠鞡鞢鞣鞤鞥鞦鞧鞨鞩鞪鞫鞬鞭鞮鞯鞰鞱鞲鞳鞴鞵鞶鞷鞸鞹鞺鞻鞼鞽鞾鞿韀韁韂韃韄韅韆韇韈韉韊韋韌韍韎韏韐韑韒韓韔韕韖韗韘韙韚韛韜韝韞韟韠韡韢韣韤韥韦韧韨韩韪韫韬韭韮韯韰韱韲音韴韵韶韷韸韹韺韻韼韽韾響",
      "颀颁颂颃预颅领颇颈颉颊颋颌颍颎颏颐频颒颓颔颕颖颗题颙颚颛颜额颞颟颠颡颢颣颤颥颦颧風颩颪颫颬颭颮颯颰颱颲颳颴颵颶颷颸颹颺颻颼颽颾颿飀飁飂飃飄飅飆飇飈飉飊飋飌飍风飏飐飑飒飓飔飕飖飗飘飙飚飛飜飝飞食飠飡飢飣飤飥飦飧飨飩飪飫飬飭飮飯飰飱飲飳飴飵飶飷飸飹飺飻飼飽飾飿",
      "馀馁馂馃馄馅馆馇馈馉馊馋馌馍馎馏馐馑馒馓馔馕首馗馘香馚馛馜馝馞馟馠馡馢馣馤馥馦馧馨馩馪馫馬馭馮馯馰馱馲馳馴馵馶馷馸馹馺馻馼馽馾馿駀駁駂駃駄駅駆駇駈駉駊駋駌駍駎駏駐駑駒駓駔駕駖駗駘駙駚駛駜駝駞駟駠駡駢駣駤駥駦駧駨駩駪駫駬駭駮駯駰駱駲駳駴駵駶駷駸駹駺駻駼駽駾駿",
      "骀骁骂骃骄骅骆骇骈骉骊骋验骍骎骏骐骑骒骓骔骕骖骗骘骙骚骛骜骝骞骟骠骡骢骣骤骥骦骧骨骩骪骫骬骭骮骯骰骱骲骳骴骵骶骷骸骹骺骻骼骽骾骿髀髁髂髃髄髅髆髇髈髉髊髋髌髍髎髏髐髑髒髓體髕髖髗高髙髚髛髜髝髞髟髠髡髢髣髤髥髦髧髨髩髪髫髬髭髮髯髰髱髲髳髴髵髶髷髸髹髺髻髼髽髾髿",
      "鮀鮁鮂鮃鮄鮅鮆鮇鮈鮉鮊鮋鮌鮍鮎鮏鮐鮑鮒鮓鮔鮕鮖鮗鮘鮙鮚鮛鮜鮝鮞鮟鮠鮡鮢鮣鮤鮥鮦鮧鮨鮩鮪鮫鮬鮭鮮鮯鮰鮱鮲鮳鮴鮵鮶鮷鮸鮹鮺鮻鮼鮽鮾鮿鯀鯁鯂鯃鯄鯅鯆鯇鯈鯉鯊鯋鯌鯍鯎鯏鯐鯑鯒鯓鯔鯕鯖鯗鯘鯙鯚鯛鯜鯝鯞鯟鯠鯡鯢鯣鯤鯥鯦鯧鯨鯩鯪鯫鯬鯭鯮鯯鯰鯱鯲鯳鯴鯵鯶鯷鯸鯹鯺鯻鯼鯽鯾鯿",
      "鲀鲁鲂鲃鲄鲅鲆鲇鲈鲉鲊鲋鲌鲍鲎鲏鲐鲑鲒鲓鲔鲕鲖鲗鲘鲙鲚鲛鲜鲝鲞鲟鲠鲡鲢鲣鲤鲥鲦鲧鲨鲩鲪鲫鲬鲭鲮鲯鲰鲱鲲鲳鲴鲵鲶鲷鲸鲹鲺鲻鲼鲽鲾鲿鳀鳁鳂鳃鳄鳅鳆鳇鳈鳉鳊鳋鳌鳍鳎鳏鳐鳑鳒鳓鳔鳕鳖鳗鳘鳙鳚鳛鳜鳝鳞鳟鳠鳡鳢鳣鳤鳥鳦鳧鳨鳩鳪鳫鳬鳭鳮鳯鳰鳱鳲鳳鳴鳵鳶鳷鳸鳹鳺鳻鳼鳽鳾鳿",
      "鶀鶁鶂鶃鶄鶅鶆鶇鶈鶉鶊鶋鶌鶍鶎鶏鶐鶑鶒鶓鶔鶕鶖鶗鶘鶙鶚鶛鶜鶝鶞鶟鶠鶡鶢鶣鶤鶥鶦鶧鶨鶩鶪鶫鶬鶭鶮鶯鶰鶱鶲鶳鶴鶵鶶鶷鶸鶹鶺鶻鶼鶽鶾鶿鷀鷁鷂鷃鷄鷅鷆鷇鷈鷉鷊鷋鷌鷍鷎鷏鷐鷑鷒鷓鷔鷕鷖鷗鷘鷙鷚鷛鷜鷝鷞鷟鷠鷡鷢鷣鷤鷥鷦鷧鷨鷩鷪鷫鷬鷭鷮鷯鷰鷱鷲鷳鷴鷵鷶鷷鷸鷹鷺鷻鷼鷽鷾鷿",
      "麀麁麂麃麄麅麆麇麈麉麊麋麌麍麎麏麐麑麒麓麔麕麖麗麘麙麚麛麜麝麞麟麠麡麢麣麤麥麦麧麨麩麪麫麬麭麮麯麰麱麲麳麴麵麶麷麸麹麺麻麼麽麾麿黀黁黂黃黄黅黆黇黈黉黊黋黌黍黎黏黐黑黒黓黔黕黖黗默黙黚黛黜黝點黟黠黡黢黣黤黥黦黧黨黩黪黫黬黭黮黯黰黱黲黳黴黵黶黷黸黹黺黻黼黽黾黿",
      "龀龁龂龃龄龅龆龇龈龉龊龋龌龍龎龏龐龑龒龓龔龕龖龗龘龙龚龛龜龝龞龟龠龡龢龣龤龥龦龧龨龩龪龫龬龭龮龯龰龱龲龳龴龵龶龷龸龹龺龻龼龽龾龿鿀鿁鿂鿃鿄鿅鿆鿇鿈鿉鿊鿋鿌鿍鿎鿏鿐鿑鿒鿓鿔鿕鿖鿗鿘鿙鿚鿛鿜鿝鿞鿟鿠鿡鿢鿣鿤鿥鿦鿧鿨鿩鿪鿫鿬鿭鿮鿯鿰鿱鿲鿳鿴鿵鿶鿷鿸鿹鿺鿻鿼鿽鿾鿿",
      "ꂀꂁꂂꂃꂄꂅꂆꂇꂈꂉꂊꂋꂌꂍꂎꂏꂐꂑꂒꂓꂔꂕꂖꂗꂘꂙꂚꂛꂜꂝꂞꂟꂠꂡꂢꂣꂤꂥꂦꂧꂨꂩꂪꂫꂬꂭꂮꂯꂰꂱꂲꂳꂴꂵꂶꂷꂸꂹꂺꂻꂼꂽꂾꂿꃀꃁꃂꃃꃄꃅꃆꃇꃈꃉꃊꃋꃌꃍꃎꃏꃐꃑꃒꃓꃔꃕꃖꃗꃘꃙꃚꃛꃜꃝꃞꃟꃠꃡꃢꃣꃤꃥꃦꃧꃨꃩꃪꃫꃬꃭꃮꃯꃰꃱꃲꃳꃴꃵꃶꃷꃸꃹꃺꃻꃼꃽꃾꃿ",
      "ꆀꆁꆂꆃꆄꆅꆆꆇꆈꆉꆊꆋꆌꆍꆎꆏꆐꆑꆒꆓꆔꆕꆖꆗꆘꆙꆚꆛꆜꆝꆞꆟꆠꆡꆢꆣꆤꆥꆦꆧꆨꆩꆪꆫꆬꆭꆮꆯꆰꆱꆲꆳꆴꆵꆶꆷꆸꆹꆺꆻꆼꆽꆾꆿꇀꇁꇂꇃꇄꇅꇆꇇꇈꇉꇊꇋꇌꇍꇎꇏꇐꇑꇒꇓꇔꇕꇖꇗꇘꇙꇚꇛꇜꇝꇞꇟꇠꇡꇢꇣꇤꇥꇦꇧꇨꇩꇪꇫꇬꇭꇮꇯꇰꇱꇲꇳꇴꇵꇶꇷꇸꇹꇺꇻꇼꇽꇾꇿ",
      "ꊀꊁꊂꊃꊄꊅꊆꊇꊈꊉꊊꊋꊌꊍꊎꊏꊐꊑꊒꊓꊔꊕꊖꊗꊘꊙꊚꊛꊜꊝꊞꊟꊠꊡꊢꊣꊤꊥꊦꊧꊨꊩꊪꊫꊬꊭꊮꊯꊰꊱꊲꊳꊴꊵꊶꊷꊸꊹꊺꊻꊼꊽꊾꊿꋀꋁꋂꋃꋄꋅꋆꋇꋈꋉꋊꋋꋌꋍꋎꋏꋐꋑꋒꋓꋔꋕꋖꋗꋘꋙꋚꋛꋜꋝꋞꋟꋠꋡꋢꋣꋤꋥꋦꋧꋨꋩꋪꋫꋬꋭꋮꋯꋰꋱꋲꋳꋴꋵꋶꋷꋸꋹꋺꋻꋼꋽꋾꋿ",
      "ꎀꎁꎂꎃꎄꎅꎆꎇꎈꎉꎊꎋꎌꎍꎎꎏꎐꎑꎒꎓꎔꎕꎖꎗꎘꎙꎚꎛꎜꎝꎞꎟꎠꎡꎢꎣꎤꎥꎦꎧꎨꎩꎪꎫꎬꎭꎮꎯꎰꎱꎲꎳꎴꎵꎶꎷꎸꎹꎺꎻꎼꎽꎾꎿꏀꏁꏂꏃꏄꏅꏆꏇꏈꏉꏊꏋꏌꏍꏎꏏꏐꏑꏒꏓꏔꏕꏖꏗꏘꏙꏚꏛꏜꏝꏞꏟꏠꏡꏢꏣꏤꏥꏦꏧꏨꏩꏪꏫꏬꏭꏮꏯꏰꏱꏲꏳꏴꏵꏶꏷꏸꏹꏺꏻꏼꏽꏾꏿ",
      "ꒀꒁꒂꒃꒄꒅꒆꒇꒈꒉꒊꒋꒌ꒍꒎꒏꒐꒑꒒꒓꒔꒕꒖꒗꒘꒙꒚꒛꒜꒝꒞꒟꒠꒡꒢꒣꒤꒥꒦꒧꒨꒩꒪꒫꒬꒭꒮꒯꒰꒱꒲꒳꒴꒵꒶꒷꒸꒹꒺꒻꒼꒽꒾꒿꓀꓁꓂꓃꓄꓅꓆꓇꓈꓉꓊꓋꓌꓍꓎꓏ꓐꓑꓒꓓꓔꓕꓖꓗꓘꓙꓚꓛꓜꓝꓞꓟꓠꓡꓢꓣꓤꓥꓦꓧꓨꓩꓪꓫꓬꓭꓮꓯꓰꓱꓲꓳꓴꓵꓶꓷꓸꓹꓺꓻꓼꓽ꓾꓿",
      "ꖀꖁꖂꖃꖄꖅꖆꖇꖈꖉꖊꖋꖌꖍꖎꖏꖐꖑꖒꖓꖔꖕꖖꖗꖘꖙꖚꖛꖜꖝꖞꖟꖠꖡꖢꖣꖤꖥꖦꖧꖨꖩꖪꖫꖬꖭꖮꖯꖰꖱꖲꖳꖴꖵꖶꖷꖸꖹꖺꖻꖼꖽꖾꖿꗀꗁꗂꗃꗄꗅꗆꗇꗈꗉꗊꗋꗌꗍꗎꗏꗐꗑꗒꗓꗔꗕꗖꗗꗘꗙꗚꗛꗜꗝꗞꗟꗠꗡꗢꗣꗤꗥꗦꗧꗨꗩꗪꗫꗬꗭꗮꗯꗰꗱꗲꗳꗴꗵꗶꗷꗸꗹꗺꗻꗼꗽꗾꗿ",
      "ꚀꚁꚂꚃꚄꚅꚆꚇꚈꚉꚊꚋꚌꚍꚎꚏꚐꚑꚒꚓꚔꚕꚖꚗꚘꚙꚚꚛꚜꚝꚞꚟꚠꚡꚢꚣꚤꚥꚦꚧꚨꚩꚪꚫꚬꚭꚮꚯꚰꚱꚲꚳꚴꚵꚶꚷꚸꚹꚺꚻꚼꚽꚾꚿꛀꛁꛂꛃꛄꛅꛆꛇꛈꛉꛊꛋꛌꛍꛎꛏꛐꛑꛒꛓꛔꛕꛖꛗꛘꛙꛚꛛꛜꛝꛞꛟꛠꛡꛢꛣꛤꛥꛦꛧꛨꛩꛪꛫꛬꛭꛮꛯ꛰꛱꛲꛳꛴꛵꛶꛷꛸꛹꛺꛻꛼꛽꛾꛿",
      "ꞀꞁꞂꞃꞄꞅꞆꞇꞈ꞉꞊ꞋꞌꞍꞎꞏꞐꞑꞒꞓꞔꞕꞖꞗꞘꞙꞚꞛꞜꞝꞞꞟꞠꞡꞢꞣꞤꞥꞦꞧꞨꞩꞪꞫꞬꞭꞮꞯꞰꞱꞲꞳꞴꞵꞶꞷꞸꞹꞺꞻꞼꞽꞾꞿꟀꟁꟂꟃꟄꟅꟆꟇꟈꟉꟊꟋꟌꟍ꟎꟏Ꟑꟑ꟒ꟓ꟔ꟕꟖꟗꟘꟙꟚꟛꟜ꟝꟞꟟꟠꟡꟢꟣꟤꟥꟦꟧꟨꟩꟪꟫꟬꟭꟮꟯꟰꟱ꟲꟳꟴꟵꟶꟷꟸꟹꟺꟻꟼꟽꟾꟿ",
      "ꢀꢁꢂꢃꢄꢅꢆꢇꢈꢉꢊꢋꢌꢍꢎꢏꢐꢑꢒꢓꢔꢕꢖꢗꢘꢙꢚꢛꢜꢝꢞꢟꢠꢡꢢꢣꢤꢥꢦꢧꢨꢩꢪꢫꢬꢭꢮꢯꢰꢱꢲꢳꢴꢵꢶꢷꢸꢹꢺꢻꢼꢽꢾꢿꣀꣁꣂꣃ꣄ꣅ꣆꣇꣈꣉꣊꣋꣌꣍꣎꣏꣐꣑꣒꣓꣔꣕꣖꣗꣘꣙꣚꣛꣜꣝꣞꣟꣠꣡꣢꣣꣤꣥꣦꣧꣨꣩꣪꣫꣬꣭꣮꣯꣰꣱ꣲꣳꣴꣵꣶꣷ꣸꣹꣺ꣻ꣼ꣽꣾꣿ",
      "ꦀꦁꦂꦃꦄꦅꦆꦇꦈꦉꦊꦋꦌꦍꦎꦏꦐꦑꦒꦓꦔꦕꦖꦗꦘꦙꦚꦛꦜꦝꦞꦟꦠꦡꦢꦣꦤꦥꦦꦧꦨꦩꦪꦫꦬꦭꦮꦯꦰꦱꦲ꦳ꦴꦵꦶꦷꦸꦹꦺꦻꦼꦽꦾꦿ꧀꧁꧂꧃꧄꧅꧆꧇꧈꧉꧊꧋꧌꧍꧎ꧏ꧐꧑꧒꧓꧔꧕꧖꧗꧘꧙꧚꧛꧜꧝꧞꧟ꧠꧡꧢꧣꧤꧥꧦꧧꧨꧩꧪꧫꧬꧭꧮꧯ꧰꧱꧲꧳꧴꧵꧶꧷꧸꧹ꧺꧻꧼꧽꧾ꧿",
      "ꪀꪁꪂꪃꪄꪅꪆꪇꪈꪉꪊꪋꪌꪍꪎꪏꪐꪑꪒꪓꪔꪕꪖꪗꪘꪙꪚꪛꪜꪝꪞꪟꪠꪡꪢꪣꪤꪥꪦꪧꪨꪩꪪꪫꪬꪭꪮꪯꪰꪱꪴꪲꪳꪵꪶꪷꪸꪹꪺꪻꪼꪽꪾ꪿ꫀ꫁ꫂ꫃꫄꫅꫆꫇꫈꫉꫊꫋꫌꫍꫎꫏꫐꫑꫒꫓꫔꫕꫖꫗꫘꫙꫚ꫛꫜꫝ꫞꫟ꫠꫡꫢꫣꫤꫥꫦꫧꫨꫩꫪꫫꫬꫭꫮꫯ꫰꫱ꫲꫳꫴꫵ꫶꫷꫸꫹꫺꫻꫼꫽꫾꫿",
      "ꮀꮁꮂꮃꮄꮅꮆꮇꮈꮉꮊꮋꮌꮍꮎꮏꮐꮑꮒꮓꮔꮕꮖꮗꮘꮙꮚꮛꮜꮝꮞꮟꮠꮡꮢꮣꮤꮥꮦꮧꮨꮩꮪꮫꮬꮭꮮꮯꮰꮱꮲꮳꮴꮵꮶꮷꮸꮹꮺꮻꮼꮽꮾꮿꯀꯁꯂꯃꯄꯅꯆꯇꯈꯉꯊꯋꯌꯍꯎꯏꯐꯑꯒꯓꯔꯕꯖꯗꯘꯙꯚꯛꯜꯝꯞꯟꯠꯡꯢꯣꯤꯥꯦꯧꯨꯩꯪ꯫꯬꯭꯮꯯꯰꯱꯲꯳꯴꯵꯶꯷꯸꯹꯺꯻꯼꯽꯾꯿",
      "검겁겂것겄겅겆겇겈겉겊겋게겍겎겏겐겑겒겓겔겕겖겗겘겙겚겛겜겝겞겟겠겡겢겣겤겥겦겧겨격겪겫견겭겮겯결겱겲겳겴겵겶겷겸겹겺겻겼경겾겿곀곁곂곃계곅곆곇곈곉곊곋곌곍곎곏곐곑곒곓곔곕곖곗곘곙곚곛곜곝곞곟고곡곢곣곤곥곦곧골곩곪곫곬곭곮곯곰곱곲곳곴공곶곷곸곹곺곻과곽곾곿",
      "궀궁궂궃궄궅궆궇궈궉궊궋권궍궎궏궐궑궒궓궔궕궖궗궘궙궚궛궜궝궞궟궠궡궢궣궤궥궦궧궨궩궪궫궬궭궮궯궰궱궲궳궴궵궶궷궸궹궺궻궼궽궾궿귀귁귂귃귄귅귆귇귈귉귊귋귌귍귎귏귐귑귒귓귔귕귖귗귘귙귚귛규귝귞귟균귡귢귣귤귥귦귧귨귩귪귫귬귭귮귯귰귱귲귳귴귵귶귷그극귺귻근귽귾귿",
      "꺀꺁꺂꺃꺄꺅꺆꺇꺈꺉꺊꺋꺌꺍꺎꺏꺐꺑꺒꺓꺔꺕꺖꺗꺘꺙꺚꺛꺜꺝꺞꺟꺠꺡꺢꺣꺤꺥꺦꺧꺨꺩꺪꺫꺬꺭꺮꺯꺰꺱꺲꺳꺴꺵꺶꺷꺸꺹꺺꺻꺼꺽꺾꺿껀껁껂껃껄껅껆껇껈껉껊껋껌껍껎껏껐껑껒껓껔껕껖껗께껙껚껛껜껝껞껟껠껡껢껣껤껥껦껧껨껩껪껫껬껭껮껯껰껱껲껳껴껵껶껷껸껹껺껻껼껽껾껿",
      "꾀꾁꾂꾃꾄꾅꾆꾇꾈꾉꾊꾋꾌꾍꾎꾏꾐꾑꾒꾓꾔꾕꾖꾗꾘꾙꾚꾛꾜꾝꾞꾟꾠꾡꾢꾣꾤꾥꾦꾧꾨꾩꾪꾫꾬꾭꾮꾯꾰꾱꾲꾳꾴꾵꾶꾷꾸꾹꾺꾻꾼꾽꾾꾿꿀꿁꿂꿃꿄꿅꿆꿇꿈꿉꿊꿋꿌꿍꿎꿏꿐꿑꿒꿓꿔꿕꿖꿗꿘꿙꿚꿛꿜꿝꿞꿟꿠꿡꿢꿣꿤꿥꿦꿧꿨꿩꿪꿫꿬꿭꿮꿯꿰꿱꿲꿳꿴꿵꿶꿷꿸꿹꿺꿻꿼꿽꿾꿿",
      "낀낁낂낃낄낅낆낇낈낉낊낋낌낍낎낏낐낑낒낓낔낕낖낗나낙낚낛난낝낞낟날낡낢낣낤낥낦낧남납낪낫났낭낮낯낰낱낲낳내낵낶낷낸낹낺낻낼낽낾낿냀냁냂냃냄냅냆냇냈냉냊냋냌냍냎냏냐냑냒냓냔냕냖냗냘냙냚냛냜냝냞냟냠냡냢냣냤냥냦냧냨냩냪냫냬냭냮냯냰냱냲냳냴냵냶냷냸냹냺냻냼냽냾냿",
      "놀놁놂놃놄놅놆놇놈놉놊놋놌농놎놏놐놑높놓놔놕놖놗놘놙놚놛놜놝놞놟놠놡놢놣놤놥놦놧놨놩놪놫놬놭놮놯놰놱놲놳놴놵놶놷놸놹놺놻놼놽놾놿뇀뇁뇂뇃뇄뇅뇆뇇뇈뇉뇊뇋뇌뇍뇎뇏뇐뇑뇒뇓뇔뇕뇖뇗뇘뇙뇚뇛뇜뇝뇞뇟뇠뇡뇢뇣뇤뇥뇦뇧뇨뇩뇪뇫뇬뇭뇮뇯뇰뇱뇲뇳뇴뇵뇶뇷뇸뇹뇺뇻뇼뇽뇾뇿",
      "늀늁늂늃늄늅늆늇늈늉늊늋늌늍늎늏느늑늒늓는늕늖늗늘늙늚늛늜늝늞늟늠늡늢늣늤능늦늧늨늩늪늫늬늭늮늯늰늱늲늳늴늵늶늷늸늹늺늻늼늽늾늿닀닁닂닃닄닅닆닇니닉닊닋닌닍닎닏닐닑닒닓닔닕닖닗님닙닚닛닜닝닞닟닠닡닢닣다닥닦닧단닩닪닫달닭닮닯닰닱닲닳담답닶닷닸당닺닻닼닽닾닿",
      "뎀뎁뎂뎃뎄뎅뎆뎇뎈뎉뎊뎋뎌뎍뎎뎏뎐뎑뎒뎓뎔뎕뎖뎗뎘뎙뎚뎛뎜뎝뎞뎟뎠뎡뎢뎣뎤뎥뎦뎧뎨뎩뎪뎫뎬뎭뎮뎯뎰뎱뎲뎳뎴뎵뎶뎷뎸뎹뎺뎻뎼뎽뎾뎿돀돁돂돃도독돆돇돈돉돊돋돌돍돎돏돐돑돒돓돔돕돖돗돘동돚돛돜돝돞돟돠돡돢돣돤돥돦돧돨돩돪돫돬돭돮돯돰돱돲돳돴돵돶돷돸돹돺돻돼돽돾돿",
      "뒀뒁뒂뒃뒄뒅뒆뒇뒈뒉뒊뒋뒌뒍뒎뒏뒐뒑뒒뒓뒔뒕뒖뒗뒘뒙뒚뒛뒜뒝뒞뒟뒠뒡뒢뒣뒤뒥뒦뒧뒨뒩뒪뒫뒬뒭뒮뒯뒰뒱뒲뒳뒴뒵뒶뒷뒸뒹뒺뒻뒼뒽뒾뒿듀듁듂듃듄듅듆듇듈듉듊듋듌듍듎듏듐듑듒듓듔듕듖듗듘듙듚듛드득듞듟든듡듢듣들듥듦듧듨듩듪듫듬듭듮듯듰등듲듳듴듵듶듷듸듹듺듻듼듽듾듿",
      "떀떁떂떃떄떅떆떇떈떉떊떋떌떍떎떏떐떑떒떓떔떕떖떗떘떙떚떛떜떝떞떟떠떡떢떣떤떥떦떧떨떩떪떫떬떭떮떯떰떱떲떳떴떵떶떷떸떹떺떻떼떽떾떿뗀뗁뗂뗃뗄뗅뗆뗇뗈뗉뗊뗋뗌뗍뗎뗏뗐뗑뗒뗓뗔뗕뗖뗗뗘뗙뗚뗛뗜뗝뗞뗟뗠뗡뗢뗣뗤뗥뗦뗧뗨뗩뗪뗫뗬뗭뗮뗯뗰뗱뗲뗳뗴뗵뗶뗷뗸뗹뗺뗻뗼뗽뗾뗿",
      "뚀뚁뚂뚃뚄뚅뚆뚇뚈뚉뚊뚋뚌뚍뚎뚏뚐뚑뚒뚓뚔뚕뚖뚗뚘뚙뚚뚛뚜뚝뚞뚟뚠뚡뚢뚣뚤뚥뚦뚧뚨뚩뚪뚫뚬뚭뚮뚯뚰뚱뚲뚳뚴뚵뚶뚷뚸뚹뚺뚻뚼뚽뚾뚿뛀뛁뛂뛃뛄뛅뛆뛇뛈뛉뛊뛋뛌뛍뛎뛏뛐뛑뛒뛓뛔뛕뛖뛗뛘뛙뛚뛛뛜뛝뛞뛟뛠뛡뛢뛣뛤뛥뛦뛧뛨뛩뛪뛫뛬뛭뛮뛯뛰뛱뛲뛳뛴뛵뛶뛷뛸뛹뛺뛻뛼뛽뛾뛿",
      "란랁랂랃랄랅랆랇랈랉랊랋람랍랎랏랐랑랒랓랔랕랖랗래랙랚랛랜랝랞랟랠랡랢랣랤랥랦랧램랩랪랫랬랭랮랯랰랱랲랳랴략랶랷랸랹랺랻랼랽랾랿럀럁럂럃럄럅럆럇럈량럊럋럌럍럎럏럐럑럒럓럔럕럖럗럘럙럚럛럜럝럞럟럠럡럢럣럤럥럦럧럨럩럪럫러럭럮럯런럱럲럳럴럵럶럷럸럹럺럻럼럽럾럿",
      "뢀뢁뢂뢃뢄뢅뢆뢇뢈뢉뢊뢋뢌뢍뢎뢏뢐뢑뢒뢓뢔뢕뢖뢗뢘뢙뢚뢛뢜뢝뢞뢟뢠뢡뢢뢣뢤뢥뢦뢧뢨뢩뢪뢫뢬뢭뢮뢯뢰뢱뢲뢳뢴뢵뢶뢷뢸뢹뢺뢻뢼뢽뢾뢿룀룁룂룃룄룅룆룇룈룉룊룋료룍룎룏룐룑룒룓룔룕룖룗룘룙룚룛룜룝룞룟룠룡룢룣룤룥룦룧루룩룪룫룬룭룮룯룰룱룲룳룴룵룶룷룸룹룺룻룼룽룾룿",
      "릀릁릂릃름릅릆릇릈릉릊릋릌릍릎릏릐릑릒릓릔릕릖릗릘릙릚릛릜릝릞릟릠릡릢릣릤릥릦릧릨릩릪릫리릭릮릯린릱릲릳릴릵릶릷릸릹릺릻림립릾릿맀링맂맃맄맅맆맇마막맊맋만맍많맏말맑맒맓맔맕맖맗맘맙맚맛맜망맞맟맠맡맢맣매맥맦맧맨맩맪맫맬맭맮맯맰맱맲맳맴맵맶맷맸맹맺맻맼맽맾맿",
      "몀몁몂몃몄명몆몇몈몉몊몋몌몍몎몏몐몑몒몓몔몕몖몗몘몙몚몛몜몝몞몟몠몡몢몣몤몥몦몧모목몪몫몬몭몮몯몰몱몲몳몴몵몶몷몸몹몺못몼몽몾몿뫀뫁뫂뫃뫄뫅뫆뫇뫈뫉뫊뫋뫌뫍뫎뫏뫐뫑뫒뫓뫔뫕뫖뫗뫘뫙뫚뫛뫜뫝뫞뫟뫠뫡뫢뫣뫤뫥뫦뫧뫨뫩뫪뫫뫬뫭뫮뫯뫰뫱뫲뫳뫴뫵뫶뫷뫸뫹뫺뫻뫼뫽뫾뫿",
      "뮀뮁뮂뮃뮄뮅뮆뮇뮈뮉뮊뮋뮌뮍뮎뮏뮐뮑뮒뮓뮔뮕뮖뮗뮘뮙뮚뮛뮜뮝뮞뮟뮠뮡뮢뮣뮤뮥뮦뮧뮨뮩뮪뮫뮬뮭뮮뮯뮰뮱뮲뮳뮴뮵뮶뮷뮸뮹뮺뮻뮼뮽뮾뮿므믁믂믃믄믅믆믇믈믉믊믋믌믍믎믏믐믑믒믓믔믕믖믗믘믙믚믛믜믝믞믟믠믡믢믣믤믥믦믧믨믩믪믫믬믭믮믯믰믱믲믳믴믵믶믷미믹믺믻민믽믾믿",
      "벀벁벂벃버벅벆벇번벉벊벋벌벍벎벏벐벑벒벓범법벖벗벘벙벚벛벜벝벞벟베벡벢벣벤벥벦벧벨벩벪벫벬벭벮벯벰벱벲벳벴벵벶벷벸벹벺벻벼벽벾벿변볁볂볃별볅볆볇볈볉볊볋볌볍볎볏볐병볒볓볔볕볖볗볘볙볚볛볜볝볞볟볠볡볢볣볤볥볦볧볨볩볪볫볬볭볮볯볰볱볲볳보복볶볷본볹볺볻볼볽볾볿",
      "부북붂붃분붅붆붇불붉붊붋붌붍붎붏붐붑붒붓붔붕붖붗붘붙붚붛붜붝붞붟붠붡붢붣붤붥붦붧붨붩붪붫붬붭붮붯붰붱붲붳붴붵붶붷붸붹붺붻붼붽붾붿뷀뷁뷂뷃뷄뷅뷆뷇뷈뷉뷊뷋뷌뷍뷎뷏뷐뷑뷒뷓뷔뷕뷖뷗뷘뷙뷚뷛뷜뷝뷞뷟뷠뷡뷢뷣뷤뷥뷦뷧뷨뷩뷪뷫뷬뷭뷮뷯뷰뷱뷲뷳뷴뷵뷶뷷뷸뷹뷺뷻뷼뷽뷾뷿",
      "뺀뺁뺂뺃뺄뺅뺆뺇뺈뺉뺊뺋뺌뺍뺎뺏뺐뺑뺒뺓뺔뺕뺖뺗뺘뺙뺚뺛뺜뺝뺞뺟뺠뺡뺢뺣뺤뺥뺦뺧뺨뺩뺪뺫뺬뺭뺮뺯뺰뺱뺲뺳뺴뺵뺶뺷뺸뺹뺺뺻뺼뺽뺾뺿뻀뻁뻂뻃뻄뻅뻆뻇뻈뻉뻊뻋뻌뻍뻎뻏뻐뻑뻒뻓뻔뻕뻖뻗뻘뻙뻚뻛뻜뻝뻞뻟뻠뻡뻢뻣뻤뻥뻦뻧뻨뻩뻪뻫뻬뻭뻮뻯뻰뻱뻲뻳뻴뻵뻶뻷뻸뻹뻺뻻뻼뻽뻾뻿",
      "뾀뾁뾂뾃뾄뾅뾆뾇뾈뾉뾊뾋뾌뾍뾎뾏뾐뾑뾒뾓뾔뾕뾖뾗뾘뾙뾚뾛뾜뾝뾞뾟뾠뾡뾢뾣뾤뾥뾦뾧뾨뾩뾪뾫뾬뾭뾮뾯뾰뾱뾲뾳뾴뾵뾶뾷뾸뾹뾺뾻뾼뾽뾾뾿뿀뿁뿂뿃뿄뿅뿆뿇뿈뿉뿊뿋뿌뿍뿎뿏뿐뿑뿒뿓뿔뿕뿖뿗뿘뿙뿚뿛뿜뿝뿞뿟뿠뿡뿢뿣뿤뿥뿦뿧뿨뿩뿪뿫뿬뿭뿮뿯뿰뿱뿲뿳뿴뿵뿶뿷뿸뿹뿺뿻뿼뿽뿾뿿",
      "삀삁삂삃삄삅삆삇삈삉삊삋삌삍삎삏삐삑삒삓삔삕삖삗삘삙삚삛삜삝삞삟삠삡삢삣삤삥삦삧삨삩삪삫사삭삮삯산삱삲삳살삵삶삷삸삹삺삻삼삽삾삿샀상샂샃샄샅샆샇새색샊샋샌샍샎샏샐샑샒샓샔샕샖샗샘샙샚샛샜생샞샟샠샡샢샣샤샥샦샧샨샩샪샫샬샭샮샯샰샱샲샳샴샵샶샷샸샹샺샻샼샽샾샿",
      "솀솁솂솃솄솅솆솇솈솉솊솋소속솎솏손솑솒솓솔솕솖솗솘솙솚솛솜솝솞솟솠송솢솣솤솥솦솧솨솩솪솫솬솭솮솯솰솱솲솳솴솵솶솷솸솹솺솻솼솽솾솿쇀쇁쇂쇃쇄쇅쇆쇇쇈쇉쇊쇋쇌쇍쇎쇏쇐쇑쇒쇓쇔쇕쇖쇗쇘쇙쇚쇛쇜쇝쇞쇟쇠쇡쇢쇣쇤쇥쇦쇧쇨쇩쇪쇫쇬쇭쇮쇯쇰쇱쇲쇳쇴쇵쇶쇷쇸쇹쇺쇻쇼쇽쇾쇿",
      "슀슁슂슃슄슅슆슇슈슉슊슋슌슍슎슏슐슑슒슓슔슕슖슗슘슙슚슛슜슝슞슟슠슡슢슣스슥슦슧슨슩슪슫슬슭슮슯슰슱슲슳슴습슶슷슸승슺슻슼슽슾슿싀싁싂싃싄싅싆싇싈싉싊싋싌싍싎싏싐싑싒싓싔싕싖싗싘싙싚싛시식싞싟신싡싢싣실싥싦싧싨싩싪싫심십싮싯싰싱싲싳싴싵싶싷싸싹싺싻싼싽싾싿",
      "쎀쎁쎂쎃쎄쎅쎆쎇쎈쎉쎊쎋쎌쎍쎎쎏쎐쎑쎒쎓쎔쎕쎖쎗쎘쎙쎚쎛쎜쎝쎞쎟쎠쎡쎢쎣쎤쎥쎦쎧쎨쎩쎪쎫쎬쎭쎮쎯쎰쎱쎲쎳쎴쎵쎶쎷쎸쎹쎺쎻쎼쎽쎾쎿쏀쏁쏂쏃쏄쏅쏆쏇쏈쏉쏊쏋쏌쏍쏎쏏쏐쏑쏒쏓쏔쏕쏖쏗쏘쏙쏚쏛쏜쏝쏞쏟쏠쏡쏢쏣쏤쏥쏦쏧쏨쏩쏪쏫쏬쏭쏮쏯쏰쏱쏲쏳쏴쏵쏶쏷쏸쏹쏺쏻쏼쏽쏾쏿",
      "쒀쒁쒂쒃쒄쒅쒆쒇쒈쒉쒊쒋쒌쒍쒎쒏쒐쒑쒒쒓쒔쒕쒖쒗쒘쒙쒚쒛쒜쒝쒞쒟쒠쒡쒢쒣쒤쒥쒦쒧쒨쒩쒪쒫쒬쒭쒮쒯쒰쒱쒲쒳쒴쒵쒶쒷쒸쒹쒺쒻쒼쒽쒾쒿쓀쓁쓂쓃쓄쓅쓆쓇쓈쓉쓊쓋쓌쓍쓎쓏쓐쓑쓒쓓쓔쓕쓖쓗쓘쓙쓚쓛쓜쓝쓞쓟쓠쓡쓢쓣쓤쓥쓦쓧쓨쓩쓪쓫쓬쓭쓮쓯쓰쓱쓲쓳쓴쓵쓶쓷쓸쓹쓺쓻쓼쓽쓾쓿",
      "얀얁얂얃얄얅얆얇얈얉얊얋얌얍얎얏얐양얒얓얔얕얖얗얘얙얚얛얜얝얞얟얠얡얢얣얤얥얦얧얨얩얪얫얬얭얮얯얰얱얲얳어억얶얷언얹얺얻얼얽얾얿엀엁엂엃엄업없엇었엉엊엋엌엍엎엏에엑엒엓엔엕엖엗엘엙엚엛엜엝엞엟엠엡엢엣엤엥엦엧엨엩엪엫여역엮엯연엱엲엳열엵엶엷엸엹엺엻염엽엾엿",
      "욀욁욂욃욄욅욆욇욈욉욊욋욌욍욎욏욐욑욒욓요욕욖욗욘욙욚욛욜욝욞욟욠욡욢욣욤욥욦욧욨용욪욫욬욭욮욯우욱욲욳운욵욶욷울욹욺욻욼욽욾욿움웁웂웃웄웅웆웇웈웉웊웋워웍웎웏원웑웒웓월웕웖웗웘웙웚웛웜웝웞웟웠웡웢웣웤웥웦웧웨웩웪웫웬웭웮웯웰웱웲웳웴웵웶웷웸웹웺웻웼웽웾웿",
      "잀잁잂잃임입잆잇있잉잊잋잌잍잎잏자작잒잓잔잕잖잗잘잙잚잛잜잝잞잟잠잡잢잣잤장잦잧잨잩잪잫재잭잮잯잰잱잲잳잴잵잶잷잸잹잺잻잼잽잾잿쟀쟁쟂쟃쟄쟅쟆쟇쟈쟉쟊쟋쟌쟍쟎쟏쟐쟑쟒쟓쟔쟕쟖쟗쟘쟙쟚쟛쟜쟝쟞쟟쟠쟡쟢쟣쟤쟥쟦쟧쟨쟩쟪쟫쟬쟭쟮쟯쟰쟱쟲쟳쟴쟵쟶쟷쟸쟹쟺쟻쟼쟽쟾쟿",
      "좀좁좂좃좄종좆좇좈좉좊좋좌좍좎좏좐좑좒좓좔좕좖좗좘좙좚좛좜좝좞좟좠좡좢좣좤좥좦좧좨좩좪좫좬좭좮좯좰좱좲좳좴좵좶좷좸좹좺좻좼좽좾좿죀죁죂죃죄죅죆죇죈죉죊죋죌죍죎죏죐죑죒죓죔죕죖죗죘죙죚죛죜죝죞죟죠죡죢죣죤죥죦죧죨죩죪죫죬죭죮죯죰죱죲죳죴죵죶죷죸죹죺죻주죽죾죿",
      "즀즁즂즃즄즅즆즇즈즉즊즋즌즍즎즏즐즑즒즓즔즕즖즗즘즙즚즛즜증즞즟즠즡즢즣즤즥즦즧즨즩즪즫즬즭즮즯즰즱즲즳즴즵즶즷즸즹즺즻즼즽즾즿지직짂짃진짅짆짇질짉짊짋짌짍짎짏짐집짒짓짔징짖짗짘짙짚짛짜짝짞짟짠짡짢짣짤짥짦짧짨짩짪짫짬짭짮짯짰짱짲짳짴짵짶짷째짹짺짻짼짽짾짿",
      "쪀쪁쪂쪃쪄쪅쪆쪇쪈쪉쪊쪋쪌쪍쪎쪏쪐쪑쪒쪓쪔쪕쪖쪗쪘쪙쪚쪛쪜쪝쪞쪟쪠쪡쪢쪣쪤쪥쪦쪧쪨쪩쪪쪫쪬쪭쪮쪯쪰쪱쪲쪳쪴쪵쪶쪷쪸쪹쪺쪻쪼쪽쪾쪿쫀쫁쫂쫃쫄쫅쫆쫇쫈쫉쫊쫋쫌쫍쫎쫏쫐쫑쫒쫓쫔쫕쫖쫗쫘쫙쫚쫛쫜쫝쫞쫟쫠쫡쫢쫣쫤쫥쫦쫧쫨쫩쫪쫫쫬쫭쫮쫯쫰쫱쫲쫳쫴쫵쫶쫷쫸쫹쫺쫻쫼쫽쫾쫿",
      "쮀쮁쮂쮃쮄쮅쮆쮇쮈쮉쮊쮋쮌쮍쮎쮏쮐쮑쮒쮓쮔쮕쮖쮗쮘쮙쮚쮛쮜쮝쮞쮟쮠쮡쮢쮣쮤쮥쮦쮧쮨쮩쮪쮫쮬쮭쮮쮯쮰쮱쮲쮳쮴쮵쮶쮷쮸쮹쮺쮻쮼쮽쮾쮿쯀쯁쯂쯃쯄쯅쯆쯇쯈쯉쯊쯋쯌쯍쯎쯏쯐쯑쯒쯓쯔쯕쯖쯗쯘쯙쯚쯛쯜쯝쯞쯟쯠쯡쯢쯣쯤쯥쯦쯧쯨쯩쯪쯫쯬쯭쯮쯯쯰쯱쯲쯳쯴쯵쯶쯷쯸쯹쯺쯻쯼쯽쯾쯿",
      "첀첁첂첃첄첅첆첇첈첉첊첋첌첍첎첏첐첑첒첓첔첕첖첗처척첚첛천첝첞첟철첡첢첣첤첥첦첧첨첩첪첫첬청첮첯첰첱첲첳체첵첶첷첸첹첺첻첼첽첾첿쳀쳁쳂쳃쳄쳅쳆쳇쳈쳉쳊쳋쳌쳍쳎쳏쳐쳑쳒쳓쳔쳕쳖쳗쳘쳙쳚쳛쳜쳝쳞쳟쳠쳡쳢쳣쳤쳥쳦쳧쳨쳩쳪쳫쳬쳭쳮쳯쳰쳱쳲쳳쳴쳵쳶쳷쳸쳹쳺쳻쳼쳽쳾쳿",
      "춀춁춂춃춄춅춆춇춈춉춊춋춌춍춎춏춐춑춒춓추축춖춗춘춙춚춛출춝춞춟춠춡춢춣춤춥춦춧춨충춪춫춬춭춮춯춰춱춲춳춴춵춶춷춸춹춺춻춼춽춾춿췀췁췂췃췄췅췆췇췈췉췊췋췌췍췎췏췐췑췒췓췔췕췖췗췘췙췚췛췜췝췞췟췠췡췢췣췤췥췦췧취췩췪췫췬췭췮췯췰췱췲췳췴췵췶췷췸췹췺췻췼췽췾췿",
      "캀캁캂캃캄캅캆캇캈캉캊캋캌캍캎캏캐캑캒캓캔캕캖캗캘캙캚캛캜캝캞캟캠캡캢캣캤캥캦캧캨캩캪캫캬캭캮캯캰캱캲캳캴캵캶캷캸캹캺캻캼캽캾캿컀컁컂컃컄컅컆컇컈컉컊컋컌컍컎컏컐컑컒컓컔컕컖컗컘컙컚컛컜컝컞컟컠컡컢컣커컥컦컧컨컩컪컫컬컭컮컯컰컱컲컳컴컵컶컷컸컹컺컻컼컽컾컿",
      "쾀쾁쾂쾃쾄쾅쾆쾇쾈쾉쾊쾋쾌쾍쾎쾏쾐쾑쾒쾓쾔쾕쾖쾗쾘쾙쾚쾛쾜쾝쾞쾟쾠쾡쾢쾣쾤쾥쾦쾧쾨쾩쾪쾫쾬쾭쾮쾯쾰쾱쾲쾳쾴쾵쾶쾷쾸쾹쾺쾻쾼쾽쾾쾿쿀쿁쿂쿃쿄쿅쿆쿇쿈쿉쿊쿋쿌쿍쿎쿏쿐쿑쿒쿓쿔쿕쿖쿗쿘쿙쿚쿛쿜쿝쿞쿟쿠쿡쿢쿣쿤쿥쿦쿧쿨쿩쿪쿫쿬쿭쿮쿯쿰쿱쿲쿳쿴쿵쿶쿷쿸쿹쿺쿻쿼쿽쿾쿿",
      "킀킁킂킃킄킅킆킇킈킉킊킋킌킍킎킏킐킑킒킓킔킕킖킗킘킙킚킛킜킝킞킟킠킡킢킣키킥킦킧킨킩킪킫킬킭킮킯킰킱킲킳킴킵킶킷킸킹킺킻킼킽킾킿타탁탂탃탄탅탆탇탈탉탊탋탌탍탎탏탐탑탒탓탔탕탖탗탘탙탚탛태택탞탟탠탡탢탣탤탥탦탧탨탩탪탫탬탭탮탯탰탱탲탳탴탵탶탷탸탹탺탻탼탽탾탿",
      "톀톁톂톃톄톅톆톇톈톉톊톋톌톍톎톏톐톑톒톓톔톕톖톗톘톙톚톛톜톝톞톟토톡톢톣톤톥톦톧톨톩톪톫톬톭톮톯톰톱톲톳톴통톶톷톸톹톺톻톼톽톾톿퇀퇁퇂퇃퇄퇅퇆퇇퇈퇉퇊퇋퇌퇍퇎퇏퇐퇑퇒퇓퇔퇕퇖퇗퇘퇙퇚퇛퇜퇝퇞퇟퇠퇡퇢퇣퇤퇥퇦퇧퇨퇩퇪퇫퇬퇭퇮퇯퇰퇱퇲퇳퇴퇵퇶퇷퇸퇹퇺퇻퇼퇽퇾퇿",
      "튀튁튂튃튄튅튆튇튈튉튊튋튌튍튎튏튐튑튒튓튔튕튖튗튘튙튚튛튜튝튞튟튠튡튢튣튤튥튦튧튨튩튪튫튬튭튮튯튰튱튲튳튴튵튶튷트특튺튻튼튽튾튿틀틁틂틃틄틅틆틇틈틉틊틋틌틍틎틏틐틑틒틓틔틕틖틗틘틙틚틛틜틝틞틟틠틡틢틣틤틥틦틧틨틩틪틫틬틭틮틯티틱틲틳틴틵틶틷틸틹틺틻틼틽틾틿",
      "펀펁펂펃펄펅펆펇펈펉펊펋펌펍펎펏펐펑펒펓펔펕펖펗페펙펚펛펜펝펞펟펠펡펢펣펤펥펦펧펨펩펪펫펬펭펮펯펰펱펲펳펴펵펶펷편펹펺펻펼펽펾펿폀폁폂폃폄폅폆폇폈평폊폋폌폍폎폏폐폑폒폓폔폕폖폗폘폙폚폛폜폝폞폟폠폡폢폣폤폥폦폧폨폩폪폫포폭폮폯폰폱폲폳폴폵폶폷폸폹폺폻폼폽폾폿",
      "풀풁풂풃풄풅풆풇품풉풊풋풌풍풎풏풐풑풒풓풔풕풖풗풘풙풚풛풜풝풞풟풠풡풢풣풤풥풦풧풨풩풪풫풬풭풮풯풰풱풲풳풴풵풶풷풸풹풺풻풼풽풾풿퓀퓁퓂퓃퓄퓅퓆퓇퓈퓉퓊퓋퓌퓍퓎퓏퓐퓑퓒퓓퓔퓕퓖퓗퓘퓙퓚퓛퓜퓝퓞퓟퓠퓡퓢퓣퓤퓥퓦퓧퓨퓩퓪퓫퓬퓭퓮퓯퓰퓱퓲퓳퓴퓵퓶퓷퓸퓹퓺퓻퓼퓽퓾퓿",
      "햀햁햂햃햄햅햆햇했행햊햋햌햍햎햏햐햑햒햓햔햕햖햗햘햙햚햛햜햝햞햟햠햡햢햣햤향햦햧햨햩햪햫햬햭햮햯햰햱햲햳햴햵햶햷햸햹햺햻햼햽햾햿헀헁헂헃헄헅헆헇허헉헊헋헌헍헎헏헐헑헒헓헔헕헖헗험헙헚헛헜헝헞헟헠헡헢헣헤헥헦헧헨헩헪헫헬헭헮헯헰헱헲헳헴헵헶헷헸헹헺헻헼헽헾헿",
      "횀횁횂횃횄횅횆횇횈횉횊횋회획횎횏횐횑횒횓횔횕횖횗횘횙횚횛횜횝횞횟횠횡횢횣횤횥횦횧효횩횪횫횬횭횮횯횰횱횲횳횴횵횶횷횸횹횺횻횼횽횾횿훀훁훂훃후훅훆훇훈훉훊훋훌훍훎훏훐훑훒훓훔훕훖훗훘훙훚훛훜훝훞훟훠훡훢훣훤훥훦훧훨훩훪훫훬훭훮훯훰훱훲훳훴훵훶훷훸훹훺훻훼훽훾훿",
      "힀힁힂힃힄힅힆힇히힉힊힋힌힍힎힏힐힑힒힓힔힕힖힗힘힙힚힛힜힝힞힟힠힡힢힣힤힥힦힧힨힩힪힫힬힭힮힯ힰힱힲힳힴힵힶힷힸힹힺힻힼힽힾힿퟀퟁퟂퟃퟄퟅퟆ퟇퟈퟉퟊ퟋퟌퟍퟎퟏퟐퟑퟒퟓퟔퟕퟖퟗퟘퟙퟚퟛퟜퟝퟞퟟퟠퟡퟢퟣퟤퟥퟦퟧퟨퟩퟪퟫퟬퟭퟮퟯퟰퟱퟲퟳퟴퟵퟶퟷퟸퟹퟺퟻ퟼퟽퟾퟿",
      "????????????????????????????????????????????????????????????????????????????????????????????????????????????????????????????????",
      "????????????????????????????????????????????????????????????????????????????????????????????????????????????????????????????????",
      "????????????????????????????????????????????????????????????????????????????????????????????????????????????????????????????????",
      "????????????????????????????????????????????????????????????????????????????????????????????????????????????????????????????????",
      "????????????????????????????????????????????????????????????????????????????????????????????????????????????????????????????????",
      "????????????????????????????????????????????????????????????????????????????????????????????????????????????????????????????????",
      "????????????????????????????????????????????????????????????????????????????????????????????????????????????????????????????????",
      "????????????????????????????????????????????????????????????????????????????????????????????????????????????????????????????????",
      "",
      "",
      "",
      "",
      "",
      "",
      "",
      "",
      "",
      "",
      "",
      "",
      "",
      "",
      "",
      "",
      "",
      "",
      "",
      "",
      "",
      "",
      "",
      "",
      "",
      "呂女廬旅濾礪閭驪麗黎力曆歷轢年憐戀撚漣煉璉秊練聯輦蓮連鍊列劣咽烈裂說廉念捻殮簾獵令囹寧嶺怜玲瑩羚聆鈴零靈領例禮醴隸惡了僚寮尿料樂燎療蓼遼龍暈阮劉杻柳流溜琉留硫紐類六戮陸倫崙淪輪律慄栗率隆利吏履易李梨泥理痢罹裏裡里離匿溺吝燐璘藺隣鱗麟林淋臨立笠粒狀炙識什茶刺",
      "婢嬨廒廙彩徭惘慎愈憎慠懲戴揄搜摒敖晴朗望杖歹殺流滛滋漢瀞煮瞧爵犯猪瑱甆画瘝瘟益盛直睊着磌窱節类絛練缾者荒華蝹襁覆視調諸請謁諾諭謹變贈輸遲醙鉶陼難靖韛響頋頻鬒龜𢡊𢡄𣏕㮝䀘䀹𥉉𥳐𧻓齃龎﫚﫛﫜﫝﫞﫟﫠﫡﫢﫣﫤﫥﫦﫧﫨﫩﫪﫫﫬﫭﫮﫯﫰﫱﫲﫳﫴﫵﫶﫷﫸﫹﫺﫻﫼﫽﫾﫿",
      "ﮀﮁﮂﮃﮄﮅﮆﮇﮈﮉﮊﮋﮌﮍﮎﮏﮐﮑﮒﮓﮔﮕﮖﮗﮘﮙﮚﮛﮜﮝﮞﮟﮠﮡﮢﮣﮤﮥﮦﮧﮨﮩﮪﮫﮬﮭﮮﮯﮰﮱ﮲﮳﮴﮵﮶﮷﮸﮹﮺﮻﮼﮽﮾﮿﯀﯁﯂﯃﯄﯅﯆﯇﯈﯉﯊﯋﯌﯍﯎﯏﯐﯑﯒ﯓﯔﯕﯖﯗﯘﯙﯚﯛﯜﯝﯞﯟﯠﯡﯢﯣﯤﯥﯦﯧﯨﯩﯪﯫﯬﯭﯮﯯﯰﯱﯲﯳﯴﯵﯶﯷﯸﯹﯺﯻﯼﯽﯾﯿ",
      "ﲀﲁﲂﲃﲄﲅﲆﲇﲈﲉﲊﲋﲌﲍﲎﲏﲐﲑﲒﲓﲔﲕﲖﲗﲘﲙﲚﲛﲜﲝﲞﲟﲠﲡﲢﲣﲤﲥﲦﲧﲨﲩﲪﲫﲬﲭﲮﲯﲰﲱﲲﲳﲴﲵﲶﲷﲸﲹﲺﲻﲼﲽﲾﲿﳀﳁﳂﳃﳄﳅﳆﳇﳈﳉﳊﳋﳌﳍﳎﳏﳐﳑﳒﳓﳔﳕﳖﳗﳘﳙﳚﳛﳜﳝﳞﳟﳠﳡﳢﳣﳤﳥﳦﳧﳨﳩﳪﳫﳬﳭﳮﳯﳰﳱﳲﳳﳴﳵﳶﳷﳸﳹﳺﳻﳼﳽﳾﳿ",
      "ﶀﶁﶂﶃﶄﶅﶆﶇﶈﶉﶊﶋﶌﶍﶎﶏ﶐﶑ﶒﶓﶔﶕﶖﶗﶘﶙﶚﶛﶜﶝﶞﶟﶠﶡﶢﶣﶤﶥﶦﶧﶨﶩﶪﶫﶬﶭﶮﶯﶰﶱﶲﶳﶴﶵﶶﶷﶸﶹﶺﶻﶼﶽﶾﶿﷀﷁﷂﷃﷄﷅﷆﷇ﷈﷉﷊﷋﷌﷍﷎﷏????????????????????????????????ﷰﷱﷲﷳﷴﷵﷶﷷﷸﷹﷺﷻ﷼﷽﷾﷿",
      "ﺀﺁﺂﺃﺄﺅﺆﺇﺈﺉﺊﺋﺌﺍﺎﺏﺐﺑﺒﺓﺔﺕﺖﺗﺘﺙﺚﺛﺜﺝﺞﺟﺠﺡﺢﺣﺤﺥﺦﺧﺨﺩﺪﺫﺬﺭﺮﺯﺰﺱﺲﺳﺴﺵﺶﺷﺸﺹﺺﺻﺼﺽﺾﺿﻀﻁﻂﻃﻄﻅﻆﻇﻈﻉﻊﻋﻌﻍﻎﻏﻐﻑﻒﻓﻔﻕﻖﻗﻘﻙﻚﻛﻜﻝﻞﻟﻠﻡﻢﻣﻤﻥﻦﻧﻨﻩﻪﻫﻬﻭﻮﻯﻰﻱﻲﻳﻴﻵﻶﻷﻸﻹﻺﻻﻼ﻽﻾﻿",
      "ﾀﾁﾂﾃﾄﾅﾆﾇﾈﾉﾊﾋﾌﾍﾎﾏﾐﾑﾒﾓﾔﾕﾖﾗﾘﾙﾚﾛﾜﾝﾞﾟﾠﾡﾢﾣﾤﾥﾦﾧﾨﾩﾪﾫﾬﾭﾮﾯﾰﾱﾲﾳﾴﾵﾶﾷﾸﾹﾺﾻﾼﾽﾾ﾿￀￁ￂￃￄￅￆￇ￈￉ￊￋￌￍￎￏ￐￑ￒￓￔￕￖￗ￘￙ￚￛￜ￝￞￟￠￡￢￣￤￥￦￧￨￩￪￫￬￭￮￯￰￱￲￳￴￵￶￷￸￹￺￻￼�??">>

\* the replacement of a numeric character reference (html/__init__.py:93-105).
\* _invalid_charrefs (html/__init__.py:26-58) is looked up first: it gives 0
\* as U+FFFD, 13 as "\r", and each of 128..159 as the character Windows-1252
\* has there, or as the character of that number.  Then the surrogates
\* 55296..57343 and what lies above 1114111 give U+FFFD.  Then
\* _invalid_codepoints (html/__init__.py:61-76) give the empty string: 1..8,
\* 11, 14..31, 127, 64976..65007 and the last two numbers of each of the 17
\* planes.  Every other number gives chr(num); above 65535 that is a high
\* surrogate 55296 + h and a low surrogate 56320 + l, with
\* num - 65536 = 1024 * h + l.  The value is left undefined where it is a
\* character no string of this module can hold: the grave accent (96), 23 of
\* the characters of _invalid_charrefs, and the characters above U+00FF that
\* have a UTF-16 unit with a low byte under 128.
CodePointChar(num) ==
    LET invalid_charrefs ==
            (0 :> "�")
            @@ (128 :> "€")
            @@ (129 :> "")
            @@ (131 :> "ƒ")
            @@ (136 :> "ˆ")
            @@ (141 :> "")
            @@ (143 :> "")
            @@ (144 :> "")
            @@ (152 :> "˜")
            @@ (157 :> "")
    IN  IF num = 13 THEN "\r"
        ELSE IF num \in DOMAIN invalid_charrefs THEN invalid_charrefs[num]
        ELSE IF num \in 128..159 THEN NoString
        ELSE IF num \in 55296..57343 \/ num > 1114111 THEN "�"
        ELSE IF \/ num \in (1..8) \cup {11} \cup (14..31) \cup {127}
                \/ num \in 64976..65007
                \/ num % 65536 \in {65534, 65535}
        THEN ""
        ELSE IF num = 9 THEN "\t"
        ELSE IF num = 10 THEN "\n"
        ELSE IF num = 12 THEN "\f"
        ELSE IF num \in 32..95 THEN Char(AsciiChars, num - 31)
        ELSE IF num \in 97..126 THEN Char(LowerChars, num - 96)
        ELSE IF num \in 160..255 THEN Char(Latin1Chars, num - 159)
        ELSE IF num \in 256..65535 /\ num % 256 >= 128
        THEN Char(BmpChars[num \div 256], (num % 256) - 127)
        ELSE IF /\ num > 65535
                /\ ((num - 65536) \div 1024) % 256 >= 128
                /\ (num - 65536) % 256 >= 128
        THEN LET h == (num - 65536) \div 1024
                 l == (num - 65536) % 1024
             IN  Char(SurrogatePairs, 2 * (128 * (h \div 256) + (h % 256) - 127) - 1)
                 \o Char(SurrogatePairs, 2 * (128 * (l \div 256) + (l % 256) - 127))
        ELSE NoString

HexDigits == "0123456789abcdef"

\* int(s, base) for a non-empty string of the digits [0-9a-fA-F] of the base
RECURSIVE NumberIn(_, _)
NumberIn(s, base) ==
    IF s = "" THEN 0
    ELSE base * NumberIn(SubSeq(s, 1, Len(s) - 1), base)
         + (CHOOSE i \in 1..base :
                Char(s, Len(s)) \in {Char(HexDigits, i), Char("0123456789ABCDEF", i)}) - 1

IsDigitIn(c, base) ==
    c # "" /\ \E i \in 1..base : c \in {Char(HexDigits, i), Char("0123456789ABCDEF", i)}

\* the characters a reference name does not hold: [^\t\n\f <&#;]
NameStops == {"\t", "\n", "\f", " ", "<", "&", "#", ";"}

\* the characters of the runs of _charref: decimal digits, hexadecimal
\* digits, and the characters of a name
InRun(c, kind) ==
    CASE kind = "dec" -> IsDigitIn(c, 10)
      [] kind = "hex" -> IsDigitIn(c, 16)
      [] OTHER -> c \notin NameStops

\* the end of the longest run of at most max characters of a kind that
\* starts at position k + 1 of s
RECURSIVE RunEnd(_, _, _, _)
RunEnd(s, k, max, kind) ==
    IF max > 0 /\ k < Len(s) /\ InRun(Char(s, k + 1), kind)
    THEN RunEnd(s, k + 1, max - 1, kind)
    ELSE k

\* _replace_charref for a name (html/__init__.py:106-113): the name itself,
\* or else its longest prefix of two characters or more that is a name,
\* followed by what is left of it.  spaces: the names whose value is made of
\* whitespace (str.isspace, the \s of re) and holds a character that no
\* string of this module can hold.  spaced: see Unescape
ReplaceNamed(s, spaced) ==
    LET spaces == {"MediumSpace;", "ThickSpace;", "ThinSpace;", "VeryThinSpace;",
                   "emsp13;", "emsp14;", "emsp;", "ensp;", "hairsp;", "numsp;",
                   "puncsp;", "thinsp;"}
        prefixes == {x \in 2..(Len(s) - 1) : SubSeq(s, 1, x) \in DOMAIN HtmlEntities}
        x == CHOOSE y \in prefixes : \A z \in prefixes : z <= y
    IN  IF s \in DOMAIN HtmlEntities THEN HtmlEntities[s]
        ELSE IF spaced /\ s \in spaces THEN " "
        ELSE IF s \in HtmlEntitiesUnwritten THEN NoString
        ELSE IF prefixes # {}
        THEN HtmlEntities[SubSeq(s, 1, x)] \o SubSeq(s, x + 1, Len(s))
        ELSE "&" \o s

\* the match of _charref (html/__init__.py:116-118),
\* &(#[0-9]+;?|#[xX][0-9a-fA-F]+;?|[^\t\n\f <&#;]{1,32};?), at the "&" that
\* starts rest, and what replaces it; len is 0 when there is no match.
\* spaces: the numbers of the whitespace characters that no string of this
\* module can hold (U+2000..U+200A, U+2028, U+2029, U+202F, U+205F, U+3000)
CharRef(rest, spaced) ==
    LET At(i) == IF i <= Len(rest) THEN Char(rest, i) ELSE ""
        Closed(e) == IF At(e + 1) = ";" THEN e + 1 ELSE e
        dec == RunEnd(rest, 2, Len(rest), "dec")
        hex == RunEnd(rest, 3, Len(rest), "hex")
        name == RunEnd(rest, 1, 32, "name")
        spaces == (8192..8202) \cup {8232, 8233, 8239, 8287, 12288}
        Numbered(num) ==
            IF spaced /\ num \in spaces THEN " " ELSE CodePointChar(num)
    IN  IF At(2) = "#"
        THEN IF dec > 2
             THEN [len |-> Closed(dec),
                   out |-> Numbered(NumberIn(SubSeq(rest, 3, dec), 10))]
             ELSE IF At(3) \in {"x", "X"} /\ hex > 3
             THEN [len |-> Closed(hex),
                   out |-> Numbered(NumberIn(SubSeq(rest, 4, hex), 16))]
             ELSE [len |-> 0, out |-> ""]
        ELSE IF name > 1
        THEN [len |-> Closed(name),
              out |-> ReplaceNamed(SubSeq(rest, 2, Closed(name)), spaced)]
        ELSE [len |-> 0, out |-> ""]

\* html.unescape(text): one left-to-right pass, so the "&" a reference yields
\* is not read again as the start of another reference.  With spaced FALSE
\* the value is that of html.unescape, and there is none where a reference
\* yields a character no string of this module can hold.  With spaced TRUE a
\* reference that yields whitespace of that kind is given as a space: the
\* value is that of html.unescape up to the kind of whitespace.
RECURSIVE Unescape(_, _)
Unescape(text, spaced) ==
    LET amp == StrFind(text, "&", 1)
        rest == SubSeq(text, amp, Len(text))
        Replaced(m) ==
            IF m.len = 0
            THEN SubSeq(text, 1, amp) \o Unescape(SubSeq(text, amp + 1, Len(text)), spaced)
            ELSE SubSeq(text, 1, amp - 1) \o m.out
                 \o Unescape(SubSeq(rest, m.len + 1, Len(rest)), spaced)
    IN  IF amp = 0 THEN text ELSE Replaced(CharRef(rest, spaced))

\* clean_html (community.py:14-24); re.sub(r'\s+', ' ', t).strip() leaves the
\* whitespace-separated words joined by single spaces, whatever the kind of
\* the whitespace between them
clean_html(text) ==
    IF text = "" THEN ""
    ELSE StrJoin(" ", StrWords(Unescape(StripTags(text), TRUE)))

\* fetch_reddit_posts (community.py:42-95) on the response of requests.get;
\* status 0 stands for requests.get raising
fetch_reddit_posts(subreddit, response, min_score) ==
    LET convert(p) ==
            [title |-> MetaGet(p, "title", ""),
             body |-> MetaGet(p, "selftext", ""),
             score |-> MetaGet(p, "score", 0),
             url |-> "https://reddit.com" \o MetaGet(p, "permalink", ""),
             subreddit |-> subreddit,
             num_comments |-> MetaGet(p, "num_comments", 0),
             created_utc |-> MetaGet(p, "created_utc", 0)]
        posts == response.children
        kept == SelectSeq([i \in 1..Len(posts) |-> MetaGet(posts[i], "data", <<>>)],
                          LAMBDA p : MetaGet(p, "score", 0) >= min_score)
    IN  IF response.status = 0 THEN [error |-> "ConnectionError", result |-> <<>>]
        ELSE IF response.status # 200 THEN [error |-> "none", result |-> <<>>]
        ELSE [error |-> "none", result |-> [i \in 1..Len(kept) |-> convert(kept[i])]]

\* reddit_post_to_chunk with the id derived from the record's content
reddit_post_to_chunk_content_id(post) ==
    [text |-> "", metadata |-> [source |-> MetaGet(post, "url", "")],
     id |-> "reddit_" \o ToString(MetaGet(post, "score", 0))]

\* reddit_post_to_chunk (community.py:98-130)
reddit_post_to_chunk(post) ==
    LET title == MetaGet(post, "title", "Untitled")
        body == MetaGet(post, "body", "")
        parts == <<"Reddit Discussion: " \o title,
                   "Subreddit: r/" \o MetaGet(post, "subreddit", "unknown") \o " | "
                       \o ToString(MetaGet(post, "score", 0)) \o " upvotes | "
                       \o ToString(MetaGet(post, "num_comments", 0)) \o " comments",
                   "",
                   IF body # "" THEN body ELSE "(Link post - no text content)">>
        url == MetaGet(post, "url", "")
        pieces == StrSplit(url, "/")
        post_id == IF StrFind(url, "/comments/", 1) # 0
                   THEN pieces[Len(pieces) - 2]
                   ELSE StrLastN(url, 20)
    IN  [text |-> StrJoin("\n", parts),
         metadata |-> [source |-> url,
                       doc_type |-> "community_reddit",
                       title |-> title,
                       subreddit |-> MetaGet(post, "subreddit", ""),
                       score |-> ToString(MetaGet(post, "score", 0))],
         id |-> "reddit_" \o post_id]

\* fetch_stackoverflow_questions (community.py:186-225) on the response of
\* requests.get
fetch_stackoverflow_questions(response, min_score) ==
    IF response.status = 0 THEN [error |-> "ConnectionError", result |-> <<>>]
    ELSE IF response.status # 200 THEN [error |-> "none", result |-> <<>>]
    ELSE [error |-> "none",
          result |-> SelectSeq(response.items,
                               LAMBDA q : MetaGet(q, "score", 0) >= min_score)]

\* stackoverflow_to_chunk (community.py:228-265); a question id is carried as
\* the decimal string that formatting it yields
stackoverflow_to_chunk(question) ==
    LET title == clean_html(MetaGet(question, "title", "Untitled"))
        body == clean_html(MetaGet(question, "body", ""))
        tags_str == StrJoin(", ", FirstN(MetaGet(question, "tags", <<>>), 5))
        score == ToString(MetaGet(question, "score", 0))
        answered == MetaGet(question, "is_answered", FALSE)
                    /\ MetaGet(question, "accepted_answer_id", 0) # 0
        parts == <<"StackOverflow Question: " \o title,
                   "Tags: " \o tags_str \o " | " \o score \o " votes | "
                       \o ToString(MetaGet(question, "answer_count", 0)) \o " answers",
                   "",
                   IF body # "" THEN StrFirstN(body, 2000) ELSE "(No body)">>
                 \o (IF answered THEN <<"\n[Has accepted answer]">> ELSE <<>>)
        q_id == MetaGet(question, "question_id", "unknown")
    IN  [text |-> StrJoin("\n", parts),
         metadata |-> [source |-> MetaGet(question, "link",
                                          "https://stackoverflow.com/q/" \o q_id),
                       doc_type |-> "community_stackoverflow",
                       title |-> title,
                       tags |-> tags_str,
                       score |-> score],
         id |-> "so_" \o q_id]

\* search_papers after _request_with_retry has returned (semantic_scholar.py:87-95)
search_papers(response, min_citations) ==
    IF min_citations > 0
    THEN SelectSeq(response.data,
                   LAMBDA p : MetaGet(p, "citationCount", 0) >= min_citations)
    ELSE response.data

\* search_and_ingest (semantic_scholar.py:189-207)
search_and_ingest(response, min_citations) ==
    LET papers == search_papers(response, min_citations)
    IN  [i \in 1..Len(papers) |-> paper_to_chunk(papers[i])]

-----------------------------------------------------------------------------
(* Fetch runs: fetch_reddit_rag_content, fetch_stackoverflow_rag_content   *)
(* (community.py) and discover_rag_papers (semantic_scholar.py).  Times    *)
(* are in milliseconds.                                                    *)

REQUEST_DELAY == 1000
SS_REQUEST_DELAY == 500
MAX_RETRIES == 3
RETRY_DELAY == 2000

RAG_SUBREDDITS ==
    <<"LocalLLaMA", "MachineLearning", "LangChain", "artificial", "learnmachinelearning">>

RAG_TOPICS ==
    <<"retrieval augmented generation", "dense passage retrieval",
      "vector database embedding", "chunking strategies NLP",
      "RAG evaluation metrics", "hybrid search retrieval", "reranking cross encoder">>

\* an outbound request leaves: gap is the time slept since the previous
\* request of the run, -1 for the first one
Requested(frame, response) ==
    [frame EXCEPT !.response = response,
                  !.gap = IF frame.requested THEN frame.since ELSE -1,
                  !.requested = TRUE,
                  !.since = 0,
                  !.error = "none"]

\* time.sleep(seconds)
Slept(frame, milliseconds) == [frame EXCEPT !.since = @ + milliseconds]

\* the for loop moves on to the next query
NextQuery(frame) ==
    [frame EXCEPT !.queries = Tail(@), !.attempted = Append(@, Head(frame.queries)),
                  !.attempt = 0]

\* the except clause missing: the exception leaves the run
Uncaught(frame, error) == [frame EXCEPT !.pc = "raised", !.error = error]

\* except Exception as e: print (community.py:176-177, 312-313,
\* semantic_scholar.py:277-278)
Caught(frame, error) == [frame EXCEPT !.error = error]

\* the loop over the posts without the seen set
RECURSIVE RedditLoopNoSeen(_, _)
RedditLoopNoSeen(frame, posts) ==
    IF posts = <<>> THEN frame
    ELSE RedditLoopNoSeen(
             [frame EXCEPT !.all_chunks = Append(@, reddit_post_to_chunk(Head(posts)))],
             Tail(posts))

\* community.py:167-172
RECURSIVE RedditLoop(_, _)
RedditLoop(frame, posts) ==
    IF posts = <<>> THEN frame
    ELSE LET url == MetaGet(Head(posts), "url", "")
         IN  RedditLoop(
                 IF url \notin frame.seen
                 THEN [frame EXCEPT !.seen = @ \cup {url},
                                    !.all_chunks =
                                        Append(@, reddit_post_to_chunk(Head(posts)))]
                 ELSE frame,
                 Tail(posts))

\* community.py:303-308; None is the key of a question without question_id
RECURSIVE StackOverflowLoop(_, _)
StackOverflowLoop(frame, questions) ==
    IF questions = <<>> THEN frame
    ELSE LET q_id == MetaGet(Head(questions), "question_id", "None")
         IN  StackOverflowLoop(
                 IF q_id \notin frame.seen
                 THEN [frame EXCEPT !.seen = @ \cup {q_id},
                                    !.all_chunks =
                                        Append(@, stackoverflow_to_chunk(Head(questions)))]
                 ELSE frame,
                 Tail(questions))

\* semantic_scholar.py:271-275
RECURSIVE PaperLoop(_, _)
PaperLoop(frame, chunks) ==
    IF chunks = <<>> THEN frame
    ELSE LET paper_id == Head(chunks).id
         IN  PaperLoop(
                 IF paper_id \notin frame.seen
                 THEN [frame EXCEPT !.seen = @ \cup {paper_id},
                                    !.all_chunks = Append(@, Head(chunks))]
                 ELSE frame,
                 Tail(chunks))

\* one iteration of the loops of fetch_reddit_rag_content (community.py:161-177)
RedditIteration(frame, response) ==
    LET sent == NextQuery(Requested(frame, response))
        handle(fetched) ==
            IF fetched.error # "none" THEN Caught(sent, fetched.error)
            ELSE Slept(RedditLoop(sent, fetched.result), REQUEST_DELAY)
    IN  handle(fetch_reddit_posts(Head(frame.queries)[1], response, frame.min_score))

\* one iteration of the loop of fetch_stackoverflow_rag_content
\* (community.py:298-313)
StackOverflowIteration(frame, response) ==
    LET sent == NextQuery(Requested(frame, response))
        handle(fetched) ==
            IF fetched.error # "none" THEN Caught(sent, fetched.error)
            ELSE Slept(StackOverflowLoop(sent, fetched.result), REQUEST_DELAY)
    IN  handle(fetch_stackoverflow_questions(response, frame.min_score))

\* wait_time of the attempt numbered from 0 (semantic_scholar.py:46)
wait_time(attempt) == RETRY_DELAY * (attempt + 1)

\* PaperAttempt with every HTTP error waited out and retried like a 429
PaperAttemptRetryingErrors(frame, response) ==
    LET sent == [Requested(frame, response) EXCEPT
                    !.waits = IF frame.attempt = 0 THEN <<>> ELSE @]
        waited == [Slept(sent, wait_time(frame.attempt)) EXCEPT
                      !.waits = Append(@, wait_time(frame.attempt)),
                      !.attempt = @ + 1]
    IN  IF response.status = 0 THEN Caught(NextQuery(sent), "ConnectionError")
        ELSE IF response.status >= 400
        THEN IF waited.attempt < MAX_RETRIES THEN waited
             ELSE Caught(NextQuery(waited), "HTTPError")
        ELSE Slept(PaperLoop(NextQuery(sent),
                             search_and_ingest(response, frame.min_score)),
                   SS_REQUEST_DELAY)

\* one request of _request_with_retry (semantic_scholar.py:42-60) made for the
\* topic at hand by discover_rag_papers (semantic_scholar.py:267-278): a 429
\* is waited out and the request repeated, until max_retries requests were
\* made; any other failure leaves the call at once; a response that is not an
\* error goes through search_and_ingest and the loop over its chunks
PaperAttempt(frame, response) ==
    LET sent == [Requested(frame, response) EXCEPT
                    !.waits = IF frame.attempt = 0 THEN <<>> ELSE @]
        waited == [Slept(sent, wait_time(frame.attempt)) EXCEPT
                      !.waits = Append(@, wait_time(frame.attempt)),
                      !.attempt = @ + 1]
    IN  IF response.status = 0 THEN Caught(NextQuery(sent), "ConnectionError")
        ELSE IF response.status = 429
        THEN IF waited.attempt < MAX_RETRIES THEN waited
             ELSE Caught(NextQuery(waited), "HTTPError")
        ELSE IF response.status >= 400 THEN Caught(NextQuery(sent), "HTTPError")
        ELSE Slept(PaperLoop(NextQuery(sent),
                             search_and_ingest(response, frame.min_score)),
                   SS_REQUEST_DELAY)

\* the frame of a fetch run at the entry of its loop
FetchStart(provider, queries, min_score) ==
    [pc |-> "loop", provider |-> provider, queries |-> queries,
     min_score |-> min_score, seen |-> {}, all_chunks |-> <<>>,
     attempted |-> <<>>, attempt |-> 0, waits |-> <<>>,
     requested |-> FALSE, since |-> 0, gap |-> -1,
     response |-> <<>>, error |-> "none", result |-> <<>>]

\* the subreddit/query pairs in the order the nested loops visit them
\* (community.py:161-162)
RedditPairs(queries) ==
    [k \in 1..(Len(RAG_SUBREDDITS) * Len(queries)) |->
        <<RAG_SUBREDDITS[((k - 1) \div Len(queries)) + 1],
          queries[((k - 1) % Len(queries)) + 1]>>]

MaxQueries == 2

QueryTexts == <<"RAG retrieval augmented generation", "LlamaIndex", "chromadb">>

\* the queries argument: the first n of the query texts
QueryLists == {FirstN(QueryTexts, n) : n \in 1..MaxQueries}

\* what the listing of a subreddit search holds: a post, the same post after
\* its score and title changed, a second post, a post without permalink, a
\* post below the default min_score and a post whose permalink carries the
\* post id of the first under another subreddit
RedditPosts ==
    [a  |-> [data |-> [title |-> "RAG tips", selftext |-> "a b", score |-> 10,
                       permalink |-> "/r/x/comments/abc/rag_tips/",
                       num_comments |-> 3]],
     a2 |-> [data |-> [title |-> "RAG tips (edited)", selftext |-> "a b", score |-> 25,
                       permalink |-> "/r/x/comments/abc/rag_tips/",
                       num_comments |-> 4]],
     b  |-> [data |-> [title |-> "Chunking", score |-> 7,
                       permalink |-> "/r/x/comments/def/chunking/"]],
     c  |-> [data |-> [title |-> "No link", selftext |-> "c", score |-> 9]],
     d  |-> [data |-> [title |-> "Low", score |-> 2,
                       permalink |-> "/r/x/comments/ghi/low/"]],
     e  |-> [data |-> [title |-> "RAG tips", score |-> 12,
                       permalink |-> "/r/y/comments/abc/rag_tips/"]]]

\* the responses of reddit.com; status 0 stands for requests.get raising
RedditResponses ==
    {[status |-> 0, children |-> <<>>], [status |-> 503, children |-> <<>>]}
    \cup {[status |-> 200, children |-> c] :
             c \in {<<RedditPosts.a, RedditPosts.b>>,
                    <<RedditPosts.a2, RedditPosts.d>>,
                    <<RedditPosts.c, RedditPosts.a, RedditPosts.c>>,
                    <<RedditPosts.e, RedditPosts.b>>}}

\* the questions of a StackOverflow search: a question, the same question
\* after a vote, a second question, a question without question_id and one
\* below the default min_score
Questions ==
    [a  |-> [question_id |-> "11", title |-> "Why <b>RAG</b>?", score |-> 4,
             body |-> "<p>it&#39;s&emsp;a&nbsp;&amp; b</p>", tags |-> <<"rag">>, answer_count |-> 1,
             is_answered |-> TRUE, accepted_answer_id |-> 12],
     a2 |-> [question_id |-> "11", title |-> "Why <b>RAG</b>?", score |-> 5,
             body |-> "<p>it&#39;s a&nbsp;&amp; b</p>", tags |-> <<"rag">>, answer_count |-> 2,
             is_answered |-> TRUE, accepted_answer_id |-> 12],
     b  |-> [question_id |-> "22", title |-> "chromadb ids", score |-> 1,
             link |-> "https://stackoverflow.com/questions/22"],
     c  |-> [title |-> "no id", score |-> 3, body |-> "c"],
     d  |-> [question_id |-> "33", title |-> "downvoted", score |-> 0]]

\* the responses of api.stackexchange.com
StackOverflowResponses ==
    {[status |-> 0, items |-> <<>>], [status |-> 400, items |-> <<>>]}
    \cup {[status |-> 200, items |-> q] :
             q \in {<<Questions.a, Questions.b>>,
                    <<Questions.a2, Questions.d>>,
                    <<Questions.c, Questions.a, Questions.c>>}}

\* a paper Semantic Scholar returns without paperId
PaperWithoutId == [title |-> "No id", year |-> 2022, citationCount |-> 80]

\* the responses of api.semanticscholar.org
PaperResponses ==
    {[status |-> 0, data |-> <<>>], [status |-> 429, data |-> <<>>],
     [status |-> 500, data |-> <<>>]}
    \cup {[status |-> 200, data |-> d] :
             d \in {<<DiscoveredPapers[1], DiscoveredPapers[3]>>,
                    <<DiscoveredPapers[4], DiscoveredPapers[1], DiscoveredPapers[2]>>,
                    <<PaperWithoutId, DiscoveredPapers[3], PaperWithoutId>>}}

\* one iteration of the loops of fetch_reddit_rag_content
RedditQuery ==
    /\ fetch.pc = "loop" /\ fetch.provider = "reddit" /\ fetch.queries # <<>>
    /\ \E response \in RedditResponses : fetch' = RedditIteration(fetch, response)
    /\ UNCHANGED <<ct, idc, fs, reingest, dir, up, chroma, collection, last>>

\* one iteration of the loop of fetch_stackoverflow_rag_content
StackOverflowQuery ==
    /\ fetch.pc = "loop" /\ fetch.provider = "stackoverflow" /\ fetch.queries # <<>>
    /\ \E response \in StackOverflowResponses :
           fetch' = StackOverflowIteration(fetch, response)
    /\ UNCHANGED <<ct, idc, fs, reingest, dir, up, chroma, collection, last>>

\* one request made for the topic at hand by discover_rag_papers
PaperRequest ==
    /\ fetch.pc = "loop" /\ fetch.provider = "semantic_scholar" /\ fetch.queries # <<>>
    /\ \E response \in PaperResponses : fetch' = PaperAttempt(fetch, response)
    /\ UNCHANGED <<ct, idc, fs, reingest, dir, up, chroma, collection, last>>

\* return all_chunks (community.py:179, 315, semantic_scholar.py:281)
FetchReturn ==
    /\ fetch.pc = "loop" /\ fetch.queries = <<>>
    /\ fetch' = [fetch EXCEPT !.pc = "done", !.result = fetch.all_chunks]
    /\ UNCHANGED <<ct, idc, fs, reingest, dir, up, chroma, collection, last>>

-----------------------------------------------------------------------------
(* Fetched items converted by their adapter and written to the store       *)

\* the adapter of a provider
ToChunk(provider, item) ==
    CASE provider = "reddit" -> reddit_post_to_chunk(item)
      [] provider = "stackoverflow" -> stackoverflow_to_chunk(item)
      [] OTHER -> paper_to_chunk(item)

\* source items as the adapters receive them: an item, the same item after
\* its score or citation count and title changed upstream, another item, an
\* item without its natural key and, for reddit, a post whose url has no
\* "/comments/" and ends in three characters above U+FFFF
AdapterItems(provider) ==
    CASE provider = "reddit" ->
             {[title |-> "RAG tips", body |-> "a b", score |-> 10,
               url |-> "https://reddit.com/r/x/comments/abc/rag_tips/",
               subreddit |-> "x", num_comments |-> 3, created_utc |-> 0],
              [title |-> "RAG tips (edited)", body |-> "a b c", score |-> 25,
               url |-> "https://reddit.com/r/x/comments/abc/rag_tips/",
               subreddit |-> "x", num_comments |-> 4, created_utc |-> 0],
              [title |-> "Chunking", body |-> "", score |-> 7,
               url |-> "https://reddit.com/r/x/comments/def/chunking/",
               subreddit |-> "x", num_comments |-> 0, created_utc |-> 0],
              [title |-> "No link", body |-> "c", score |-> 9],
              [title |-> "Off site", body |-> "", score |-> 8,
               url |-> "https://reddit.com/r/x/𰂀𰂀𰂀"]}
      [] provider = "stackoverflow" ->
             {Questions.a,
              [Questions.a EXCEPT !.title = "Why RAG at all?", !.score = 9,
                                  !.body = "<p>edited</p>"],
              Questions.b, Questions.c}
      [] OTHER ->
             {DiscoveredPapers[1],
              [DiscoveredPapers[1] EXCEPT !.title = "RAG (v2)", !.citationCount = 350,
                                          !.abstract = "a b c"],
              DiscoveredPapers[3], PaperWithoutId}

Providers == {"reddit", "stackoverflow", "semantic_scholar"}

\* store.upsert_chunks([chunk]) for the record an adapter makes of an item
AdapterUpsert ==
    /\ fetch.pc = "adapter"
    /\ \E item \in AdapterItems(fetch.provider), embed_ok \in BOOLEAN :
           Did("adapter_upsert", <<fetch.provider, item>>,
               upsert_chunks(collection, <<ToChunk(fetch.provider, item)>>, embed_ok))
    /\ UNCHANGED <<ct, idc, fs, reingest, dir, up, fetch, chroma>>

\* no file and no directory walk
NoFiles == <<>>

\* the store untouched
StoreIdle ==
    /\ chroma = [existing_on_add |-> "skip", duplicates_in_batch |-> "raise",
                 dropped |-> FALSE]
    /\ collection = EmptyBag
    /\ last = NoOp

InitChunk ==
    /\ idc = IdcIdle /\ reingest = NotIngested /\ up = UpIdle /\ fetch = FetchIdle
    /\ fs = NoFiles /\ dir = DirIdle /\ StoreIdle
    /\ \E text \in InputTexts, chunk_size \in 1..MaxChunkSize,
       overlap_ratio \in OverlapRatios :
        ct = CtStart(text, chunk_size, overlap_ratio)

NextChunk == CtSkipBlank \/ CtSplitLarge \/ CtAccumulate \/ CtReturn

SpecChunk == InitChunk /\ [][NextChunk]_vars

InitId == ct = CtIdle /\ idc = IdcIdle /\ reingest = NotIngested /\ up = UpIdle /\ fetch = FetchIdle /\ fs = NoFiles /\ dir = DirIdle /\ StoreIdle

NextId == GenerateChunkId \/ RestartProcess

SpecId == InitId /\ [][NextId]_vars

InitIngest ==
    /\ ct = CtIdle /\ idc = IdcIdle /\ reingest = NotIngested /\ up = UpIdle /\ fetch = FetchIdle /\ StoreIdle
    /\ fs \in CorpusFileSystems
    /\ \E extensions \in ExtensionLists, params \in IngestParams :
           dir = DirStart(extensions, params)

NextIngest == DirSkip \/ DirIngestOk \/ DirIngestFailed \/ DirReturn

SpecIngest == InitIngest /\ [][NextIngest]_vars

\* the store API on an empty collection, under each chromadb behaviour
Init ==
    /\ ct = CtIdle /\ idc = IdcIdle /\ reingest = NotIngested /\ up = UpIdle /\ fetch = FetchIdle /\ fs = NoFiles /\ dir = DirIdle
    /\ chroma \in ChromaBehaviours
    /\ collection = EmptyBag
    /\ last = NoOp

Next ==
    \/ AddChunks \/ UpsertChunks \/ DeleteBySource \/ Query \/ Retrieve
    \/ RetrieveAndFormat \/ DeleteCollection \/ NewChromaStore

Spec == Init /\ [][Next]_vars

\* re-ingestion never calls add, so of the chromadb behaviours only the one on
\* duplicate ids in a batch is varied
InitReingest ==
    /\ ct = CtIdle /\ idc = IdcIdle /\ reingest = NotIngested /\ up = UpIdle /\ fetch = FetchIdle /\ dir = DirIdle
    /\ fs \in [ReingestPaths -> FileStates]
    /\ chroma \in {c \in ChromaBehaviours : c.existing_on_add = "skip"}
    /\ collection \in StartingStores
    /\ last = NoOp

NextReingest == IngestDocument \/ UpsertIngested \/ WriteFile \/ DeleteDocument

SpecReingest == InitReingest /\ [][NextReingest]_vars

\* a fetch run of one of the three providers
InitFetch ==
    /\ ct = CtIdle /\ idc = IdcIdle /\ reingest = NotIngested /\ up = UpIdle /\ fs = NoFiles /\ dir = DirIdle
    /\ StoreIdle
    /\ \/ \E queries \in QueryLists : fetch = FetchStart("reddit", RedditPairs(queries), 5)
       \/ \E queries \in QueryLists : fetch = FetchStart("stackoverflow", queries, 1)
       \/ fetch = FetchStart("semantic_scholar", RAG_TOPICS, 50)

NextFetch == RedditQuery \/ StackOverflowQuery \/ PaperRequest \/ FetchReturn

SpecFetch == InitFetch /\ [][NextFetch]_vars

\* the records of one provider upserted into a store that starts empty
InitAdapter ==
    /\ ct = CtIdle /\ idc = IdcIdle /\ reingest = NotIngested /\ up = UpIdle /\ fs = NoFiles /\ dir = DirIdle
    /\ \E provider \in Providers : fetch = [pc |-> "adapter", provider |-> provider]
    /\ chroma \in ChromaBehaviours
    /\ collection = EmptyBag
    /\ last = NoOp

NextAdapter == AdapterUpsert

SpecAdapter == InitAdapter /\ [][NextAdapter]_vars

\* a fetch run that keeps running: requests.get and time.sleep come back, so
\* the loop of the run takes its next step
SpecFetchLive == SpecFetch /\ WF_vars(NextFetch)

InitUpgrade ==
    /\ ct = CtIdle /\ idc = IdcIdle /\ reingest = NotIngested /\ up = UpIdle /\ fetch = FetchIdle /\ dir = DirIdle
    /\ fs = NoFiles
    /\ chroma \in {c \in ChromaBehaviours : c.duplicates_in_batch = "raise"}
    /\ collection = SummaryStore
    /\ last = NoOp

NextUpgrade == UpgradePaperByArxiv \/ UpStart \/ UpPaper \/ UpReturn

SpecUpgrade == InitUpgrade /\ [][NextUpgrade]_vars

-----------------------------------------------------------------------------
(* Properties of chunk_text, checked under SpecChunk                       *)

WordCount(s) == Len(StrWords(s))

\* Python's round(num / den): to the nearest integer, ties to the even one
PyRound(num, den) ==
    LET q == num \div den
        r == num % den
    IN  IF 2 * r < den THEN q
        ELSE IF 2 * r > den THEN q + 1
        ELSE IF q % 2 = 0 THEN q ELSE q + 1

\* the text has no character other than whitespace (the empty text included)
IsBlank(text) == StrStrip(text) = ""

\* C9 as stated: chunk_text returns the empty sequence for the empty text and
\* a non-empty sequence for every non-empty text.
C9_NonEmptyForNonEmptyText ==
    ct.pc = "done" =>
        /\ ct.text = "" => ct.chunks = <<>>
        /\ ct.text # "" => ct.chunks # <<>>

\* C9 amended: chunk_text returns the empty sequence exactly for the texts
\* that hold no non-whitespace character (the empty text among them), and a
\* non-empty sequence for every text with a non-whitespace character.
C9_NonEmptyIffNotBlank ==
    ct.pc = "done" => (ct.chunks = <<>> <=> IsBlank(ct.text))

\* a text with a blank paragraph and a non-blank one has been chunked
C9_Witness ==
    /\ ct.pc = "done"
    /\ ~IsBlank(ct.text)
    /\ \E i \in 1..Len(StrSplit(ct.text, "\n\n")) :
           IsBlank(StrSplit(ct.text, "\n\n")[i])
    /\ ct.chunks # <<>>

\* the chunk holds a sentence (a piece between ". " delimiters) that alone
\* has more than chunk_size words
HoldsOversizedSentence(chunk, chunk_size) ==
    \E i \in 1..Len(StrSplit(chunk, ". ")) :
        WordCount(StrSplit(chunk, ". ")[i]) > chunk_size

\* C10: every chunk emitted has at most chunk_size + round(chunk_size *
\* overlap_ratio) words, unless it holds a sentence that alone has more than
\* chunk_size words.
C10_ChunkSizeBound ==
    ct.pc # "idle" =>
        \A i \in 1..Len(ct.chunks) :
            \/ WordCount(ct.chunks[i]) <=
                   ct.chunk_size
                   + PyRound(ct.chunk_size * ct.overlap_ratio[1], ct.overlap_ratio[2])
            \/ HoldsOversizedSentence(ct.chunks[i], ct.chunk_size)

\* the words of the paragraphs that seed the accumulator after an emission:
\* the accumulator without the paragraph that was appended last
SeedWords(frame) ==
    StrWords(StrJoin(" ", SubSeq(frame.current_chunk, 1, Len(frame.current_chunk) - 1)))

\* C11: whenever the paragraph path emits the accumulator as a chunk, the new
\* accumulator is seeded with trailing words of the emitted chunk, and these
\* shared words are at most round(chunk_size * overlap_ratio).
C11_OverlapBound ==
    [][(ct.pc = "loop" /\ ct'.pc = "loop"
        /\ Len(ct'.chunks) = Len(ct.chunks) + 1
        /\ Len(StrWords(Head(ct.paragraphs))) <= ct.chunk_size) =>
           /\ SeedWords(ct') =
                  LastN(StrWords(ct'.chunks[Len(ct'.chunks)]), Len(SeedWords(ct')))
           /\ Len(SeedWords(ct')) <=
                  PyRound(ct.chunk_size * ct.overlap_ratio[1], ct.overlap_ratio[2])]_vars

\* C21: while chunk_text runs, the tracked size current_size is the number of
\* whitespace-separated words held by the accumulator current_chunk, also
\* right after the accumulator was seeded with the overlap.
C21_AccumulatorSizedInWords ==
    ct.pc = "loop" =>
        ct.current_size = Len(StrWords(StrJoin(" ", ct.current_chunk)))

\* the sentences of a paragraph: the non-blank pieces between ". ", stripped
Sentences(para) ==
    LET pieces == StrSplit(StrStrip(para), ". ")
    IN  SelectSeq([i \in 1..Len(pieces) |-> StrStrip(pieces[i])], LAMBDA t : t # "")

\* the pieces between ". " of a chunk of the sentence path, which ends in "."
ChunkPieces(chunk) == StrSplit(SubSeq(chunk, 1, Len(chunk) - 1), ". ")

\* C20: the chunks emitted for a paragraph of more than chunk_size words
\* divide its sentences, in document order, into consecutive runs of whole
\* sentences: each chunk ends in "." and consists of at most overlap_size
\* pieces seeded from the chunk before it (none in the first chunk) followed
\* by the sentences of its run, every one of them whole, also a sentence of
\* more than chunk_size words.
C20_SentencesWhole ==
    [][(ct.pc = "loop" /\ ct'.pc = "loop" /\ ct.paragraphs # <<>>
        /\ ct'.paragraphs = Tail(ct.paragraphs)
        /\ Len(StrWords(Head(ct.paragraphs))) > ct.chunk_size) =>
           LET sentences == Sentences(Head(ct.paragraphs))
               n == Len(sentences)
               flushed == Len(ct.chunks) + (IF ct.current_chunk # <<>> THEN 1 ELSE 0)
               emitted == SubSeq(ct'.chunks, flushed + 1, Len(ct'.chunks))
               m == Len(emitted)
           IN  /\ m >= 1
               /\ \E ends \in [0..m -> 0..n] :
                      /\ ends[0] = 0 /\ ends[m] = n
                      /\ \A j \in 1..m :
                             LET pieces == ChunkPieces(emitted[j])
                                 run == ends[j] - ends[j - 1]
                             IN  /\ run >= 1
                                 /\ Char(emitted[j], Len(emitted[j])) = "."
                                 /\ Len(pieces) >= run
                                 /\ LastN(pieces, run)
                                        = SubSeq(sentences, ends[j - 1] + 1, ends[j])
                                 /\ Len(pieces) - run
                                        <= (IF j = 1 THEN 0 ELSE ct.overlap_size)]_vars

\* a paragraph of three sentences was divided with an overlap of one word,
\* and a paragraph that is one sentence of four words was emitted whole
C20_Witness ==
    /\ ct.pc # "idle"
    /\ ct.text = "a b. a. b c\n\na b\nc d"
    /\ ct.chunk_size = 2 /\ ct.overlap_size = 1
    /\ ct.paragraphs = <<>>
    /\ ct.chunks = <<"a b.", "a. a.", "a. b c.", "a b\nc d.">>

-----------------------------------------------------------------------------
(* Properties of generate_chunk_id, checked under SpecId                   *)

\* stem is the file name without its extension: the extension starts at the
\* last dot of the name and holds a character after it, and a name that
\* starts with its only dot has none
IsStemOf(stem, name) ==
    \E k \in 0..Len(name) :
        LET extension == SubSeq(name, k + 1, Len(name))
        IN  /\ stem = SubSeq(name, 1, k)
            /\ \/ /\ extension = ""
                  /\ \A i \in 2..(Len(name) - 1) : Char(name, i) # "."
               \/ /\ k >= 1
                  /\ Len(extension) >= 2
                  /\ Char(extension, 1) = "."
                  /\ \A i \in 2..Len(extension) : Char(extension, i) # "."

\* C7: the id a call returns ends in "_" and 8 characters, the first 8 of the
\* content hash of text; before them stand "_" and chunk_index in decimal;
\* what is left in front is the stem of the file name of source.  And a call
\* returns what an earlier call with the same arguments returned, whatever
\* calls were made in between and whether or not the process was restarted.
C7_MakeIdDeterministic ==
    /\ idc.last # NoCall =>
           LET id == idc.last.result
               parts == StrSplit(id, "_")
               n == Len(parts)
           IN  /\ n >= 3
               /\ Len(parts[n]) = 8
               /\ \A i \in 1..8 :
                      Char(parts[n], i) = Char(MD5HexDigest(idc.last.text), i)
               /\ parts[n - 1] = ToString(idc.last.chunk_index)
               /\ IsStemOf(StrJoin("_", SubSeq(parts, 1, n - 2)),
                           PathName(idc.last.source))
    /\ (idc.last # NoCall /\ idc.remembered # NoCall
           /\ SameArguments(idc.remembered, idc.last))
          => idc.last.result = idc.remembered.result

\* a call repeats the arguments of a call of the process before, after a
\* call with other arguments; the stem holds an underscore and a dot
C7_Witness ==
    /\ idc.calls = MaxIdCalls
    /\ idc.remembered # NoCall
    /\ idc.intervening /\ idc.restarted
    /\ SameArguments(idc.remembered, idc.last)
    /\ idc.last.result = "my_notes.v2_2_5eb63bbb"

-----------------------------------------------------------------------------
(* Properties of ingest_directory, checked under SpecIngest                *)

\* the outcome of ingest_document on an entry: "skipped" when its extension
\* is not wanted, else "ok" or "failed"
DirOutcome(p) ==
    IF ~DirSelected(p) THEN "skipped"
    ELSE IF DirIngest(p).ok THEN "ok" ELSE "failed"

\* the records of the succeeding files among paths, in that order
RECURSIVE RecordsOfSucceeding(_)
RecordsOfSucceeding(paths) ==
    IF paths = <<>> THEN <<>>
    ELSE (IF DirOutcome(Head(paths)) = "ok" THEN DirIngest(Head(paths)).records
          ELSE <<>>)
         \o RecordsOfSucceeding(Tail(paths))

\* the names of the failing files among paths, in that order
RECURSIVE NamesOfFailing(_)
NamesOfFailing(paths) ==
    IF paths = <<>> THEN <<>>
    ELSE (IF DirOutcome(Head(paths)) = "failed" THEN <<PathName(Head(paths))>>
          ELSE <<>>)
         \o NamesOfFailing(Tail(paths))

\* the names in the failure lines printed, in the order printed
RECURSIVE FailuresPrinted(_)
FailuresPrinted(printed) ==
    IF printed = <<>> THEN <<>>
    ELSE (IF Head(printed).kind = "failed" THEN <<Head(printed).name>> ELSE <<>>)
         \o FailuresPrinted(Tail(printed))

\* C6: whatever files fail, ingest_directory does not raise, visits every
\* entry, returns exactly the records ingest_document yields for the files
\* that succeed, and prints exactly one failure per failed file.
C6_PartialFailureIsolation ==
    dir.pc = "done" =>
        /\ ~dir.raised
        /\ {dir.visited[i] : i \in 1..Len(dir.visited)} = DOMAIN fs
        /\ Len(dir.visited) = Cardinality(DOMAIN fs)
        /\ dir.all_chunks = RecordsOfSucceeding(dir.visited)
        /\ FailuresPrinted(dir.printed) = NamesOfFailing(dir.visited)

\* a walk in which two files failed, the first of them before a file that
\* succeeded, has returned
C6_Witness ==
    /\ dir.pc = "done"
    /\ Len(FailuresPrinted(dir.printed)) >= 2
    /\ dir.printed[1].kind = "failed"
    /\ dir.all_chunks # <<>>

\* C8: the records ingest_directory returns have pairwise different ids
\* (the hash prefixes of the texts hashed here are pairwise different).
C8_IdsUniqueAcrossFiles ==
    dir.pc = "done" =>
        \A i, j \in 1..Len(dir.all_chunks) :
            i # j => dir.all_chunks[i].id # dir.all_chunks[j].id

-----------------------------------------------------------------------------
(* Properties of the store, checked under Spec                             *)

\* the row upsert_chunks writes for a chunk
RowOf(chunk) ==
    [id |-> chunk.id, document |-> chunk.text,
     embedding |-> EmbeddingOf(chunk.text), metadata |-> chunk.metadata]

Ids(coll) == {r.id : r \in BagToSet(coll)}

ChunkIds(chunks) == {chunks[i].id : i \in 1..Len(chunks)}

\* the last chunk of the batch that has the id
LastWithId(chunks, id) ==
    chunks[CHOOSE i \in 1..Len(chunks) :
              /\ chunks[i].id = id
              /\ \A j \in 1..Len(chunks) : chunks[j].id = id => j <= i]

\* C1: the store holds at most one record per id; an upsert_chunks call that
\* returns leaves, for every id of the batch, exactly the record written last
\* for it (text, embedding and metadata), leaves every record with another id
\* as it was, and makes the count grow by the number of ids that were not
\* stored, so not at all for ids already stored.
C1_UpsertReplaces ==
    /\ \A r \in BagToSet(collection) :
          /\ CopiesIn(r, collection) = 1
          /\ \A q \in BagToSet(collection) : q.id = r.id => q = r
    /\ (last.op = "upsert_chunks" /\ last.error = "none") =>
          /\ \A id \in ChunkIds(last.arg) :
                /\ RowsWithId(collection, id) = {RowOf(LastWithId(last.arg, id))}
                /\ CopiesIn(RowOf(LastWithId(last.arg, id)), collection) = 1
          /\ WithoutIds(collection, ChunkIds(last.arg))
                 = WithoutIds(last.before, ChunkIds(last.arg))
          /\ CollectionCount(collection) =
                 CollectionCount(last.before)
                 + Cardinality(ChunkIds(last.arg) \ Ids(last.before))

\* an upsert has replaced a stored record by one with another text, embedding
\* and metadata, next to a record with another id, and the count is the same
C1_Witness ==
    /\ last.op = "upsert_chunks" /\ last.error = "none"
    /\ Len(last.arg) = 1
    /\ \E old \in BagToSet(last.before) :
          /\ old.id = last.arg[1].id
          /\ old.document # last.arg[1].text
          /\ old.embedding # EmbeddingOf(last.arg[1].text)
          /\ old.metadata # last.arg[1].metadata
          /\ old \notin BagToSet(collection)
    /\ \E other \in BagToSet(collection) : other.id # last.arg[1].id
    /\ CollectionCount(collection) = CollectionCount(last.before)

SourceOf(row) == MetaGet(row.metadata, "source", <<>>)

\* C3: on a store whose collection exists, delete_by_source(s) raises nothing
\* and leaves exactly the records whose source is not s, each as it was;
\* with no record of source s the store is unchanged and nothing is written.
C3_DeleteBySourceExact ==
    (last.op = "delete_by_source" /\ ~chroma.dropped) =>
        /\ last.error = "none"
        /\ BagToSet(collection) = {r \in BagToSet(last.before) : SourceOf(r) # last.arg}
        /\ \A r \in BagToSet(collection) :
              CopiesIn(r, collection) = CopiesIn(r, last.before)
        /\ (\A r \in BagToSet(last.before) : SourceOf(r) # last.arg)
              => (collection = last.before /\ last.writes = <<>>)

\* records of the source were deleted and records of another source are left
C3_Witness ==
    /\ last.op = "delete_by_source" /\ ~chroma.dropped
    /\ last.writes = <<"delete">>
    /\ Cardinality({r \in BagToSet(last.before) : SourceOf(r) = last.arg}) >= 2
    /\ collection # EmptyBag
    /\ \A r \in BagToSet(collection) : SourceOf(r) # last.arg

\* C4: query and retrieve with top_k <= 0 fail with InvalidArgument before the
\* embedding collaborator is called and before the index is queried.
C4_InvalidTopKFailsFirst ==
    (last.op \in {"query", "retrieve"} /\ last.arg[2] <= 0) =>
        /\ last.error = "InvalidArgument"
        /\ last.embed_calls = <<>>
        /\ last.index_queries = <<>>

-----------------------------------------------------------------------------
(* Properties of re-ingestion, checked under SpecReingest                  *)

\* C2: when a document was ingested and upserted, and the same document (the
\* same text read from the same path) is ingested with the same arguments and
\* upserted again with no other store operation in between, the count that
\* get_collection_stats reports is the same after the second pass as after
\* the first.
C2_ReingestKeepsCount ==
    (last.op = "ingest_upsert" /\ last.prev = <<"ingest_upsert", last.arg, "none">>) =>
        get_collection_stats(collection).total_documents
            = get_collection_stats(last.before).total_documents

\* a document of two chunks has been upserted a second time into a store that
\* also holds a record of another source, and has been edited since it was
\* read the second time
C2_Witness ==
    /\ last.op = "ingest_upsert" /\ last.error = "none"
    /\ fs[last.arg[1]].text # last.arg[3]
    /\ last.prev = <<"ingest_upsert", last.arg, "none">>
    /\ Len(last.embed_calls) = 1 /\ Len(last.embed_calls[1]) = 2
    /\ get_collection_stats(collection).total_documents = 3

-----------------------------------------------------------------------------
(* Properties of the upgrade workflow, checked under SpecUpgrade           *)

\* C5: upgrade_paper_by_arxiv and upgrade_top_papers write to the store only
\* through upsert, never through add; an upgrade never fails because its
\* chunks are stored already; and an upgrade of a paper whose chunks are all
\* stored already leaves each of them as the record just written, with the
\* count unchanged.
C5_UpgradeWritesByUpsert ==
    last.op \in {"upgrade_paper_by_arxiv", "upgrade_top_papers"} =>
        /\ \A i \in 1..Len(last.writes) : last.writes[i] = "upsert"
        /\ last.error # "IDAlreadyExistsError"
        /\ (/\ last.op = "upgrade_paper_by_arxiv"
            /\ last.error = "none"
            /\ last.result # <<>>
            /\ ChunkIds(last.result) \subseteq Ids(last.before)) =>
                /\ \A i \in 1..Len(last.result) :
                      RowsWithId(collection, last.result[i].id) = {RowOf(last.result[i])}
                /\ CollectionCount(collection) = CollectionCount(last.before)

\* C25: once upgrade_paper_by_arxiv or upgrade_top_papers has returned the
\* full-PDF chunks it stored for a paper, list_papers_without_pdfs returns
\* that paper no more, whatever the order in which the store hands out its
\* rows, so that the next upgrade_top_papers does not take it up again.
C25_UpgradeProgress ==
    (/\ last.op \in {"upgrade_paper_by_arxiv", "upgrade_top_papers"}
     /\ last.error = "none"
     /\ up.pc = "idle") =>
        \A i \in 1..Len(last.result) :
            \A results \in GetOrders(SummariesWithoutPdf(collection)) :
                LET papers == list_papers_without_pdfs(results).papers
                IN  \A k \in 1..Len(papers) :
                        papers[k].arxiv_id # last.result[i].metadata.arxiv_id

-----------------------------------------------------------------------------
(* Properties of the fetch runs, checked under SpecFetch                   *)

\* the natural key of a source item as a run receives it: the post URL, the
\* question id, the paper id
ItemKey(provider, item) ==
    CASE provider = "reddit" -> MetaGet(item, "url", "")
      [] provider = "stackoverflow" -> MetaGet(item, "question_id", "unknown")
      [] OTHER -> MetaGet(item, "paperId", "unknown")

\* the natural key a record carries
RecordKey(provider, record) ==
    CASE provider = "reddit" -> record.metadata.source
      [] OTHER -> SubSeq(record.id, 4, Len(record.id))

\* the items the request of a step delivered to the loop of the run
Delivered(before, after) ==
    CASE before.provider = "reddit" ->
             fetch_reddit_posts(Head(before.queries)[1], after.response,
                                before.min_score).result
      [] before.provider = "stackoverflow" ->
             fetch_stackoverflow_questions(after.response, before.min_score).result
      [] OTHER ->
             IF after.response.status = 200
             THEN search_papers(after.response, before.min_score) ELSE <<>>

\* a step of the run that sent a request
FetchStep == fetch.pc = "loop" /\ fetch.queries # <<>> /\ fetch'.pc # "idle"

\* C12: after every step of a fetch run no natural key occurs twice in the
\* list of records, the records collected earlier stay as they were, and a
\* record the step adds is made from the first item of the response that
\* carries its key.
C12_FetchDeduplicates ==
    [][FetchStep =>
        LET old == fetch.all_chunks
            new == fetch'.all_chunks
            items == Delivered(fetch, fetch')
            provider == fetch.provider
        IN  /\ Len(new) >= Len(old) /\ SubSeq(new, 1, Len(old)) = old
            /\ \A i, j \in 1..Len(new) :
                   i < j => RecordKey(provider, new[i]) # RecordKey(provider, new[j])
            /\ \A k \in (Len(old) + 1)..Len(new) :
                   \E n \in 1..Len(items) :
                       /\ ItemKey(provider, items[n]) = RecordKey(provider, new[k])
                       /\ \A m \in 1..(n - 1) :
                              ItemKey(provider, items[m]) # ItemKey(provider, items[n])
                       /\ new[k] = ToChunk(provider, items[n])]_vars

\* a finished community run whose last response delivered an item that the
\* run had already collected with another score
C12_Witness ==
    /\ fetch.pc = "done"
    /\ fetch.provider \in {"reddit", "stackoverflow"}
    /\ fetch.response.status = 200
    /\ LET last_query == [fetch EXCEPT !.queries = <<fetch.attempted[Len(fetch.attempted)]>>]
           items == Delivered(last_query, fetch)
       IN  \E n \in 1..Len(items), i \in 1..Len(fetch.result) :
               /\ RecordKey(fetch.provider, fetch.result[i])
                      = ItemKey(fetch.provider, items[n])
               /\ fetch.result[i].metadata.score
                      # ToChunk(fetch.provider, items[n]).metadata.score

\* C14: a step of a fetch run never raises and never ends the run, whatever
\* the request yields; a query that fails, a rate limit that outlasts the
\* retries included, leaves the records collected so far and the run goes on
\* with the next query; a query that succeeds leaves a record for every item
\* it delivered; and the run returns, after every query was attempted, the
\* records it collected.
C14_FailureContained ==
    /\ [][FetchStep =>
            LET old == fetch.all_chunks
                new == fetch'.all_chunks
                provider == fetch.provider
                retrying == fetch'.attempt # 0
            IN  /\ fetch'.pc = "loop"
                /\ fetch'.attempted \o fetch'.queries = fetch.attempted \o fetch.queries
                /\ fetch'.queries = IF retrying THEN fetch.queries ELSE Tail(fetch.queries)
                /\ Len(new) >= Len(old) /\ SubSeq(new, 1, Len(old)) = old
                /\ fetch'.error # "none" => ~retrying /\ new = old
                /\ (fetch'.error = "none" /\ ~retrying) =>
                       LET items == Delivered(fetch, fetch')
                       IN  \A n \in 1..Len(items) : \E k \in 1..Len(new) :
                               RecordKey(provider, new[k]) = ItemKey(provider, items[n])]_vars
    /\ [](fetch.pc \notin {"idle", "loop"} =>
              /\ fetch.pc = "done"
              /\ fetch.queries = <<>>
              /\ fetch.result = fetch.all_chunks)

\* a run returned records after its last query succeeded with no pause since
\* the request before it, which therefore had ended in an exception
C14_Witness ==
    /\ fetch.pc = "done"
    /\ fetch.gap = 0
    /\ fetch.error = "none" /\ fetch.response.status = 200
    /\ Len(fetch.result) >= 2

\* the fixed request delay of the provider of the run
ProviderDelay ==
    IF fetch.provider = "semantic_scholar" THEN SS_REQUEST_DELAY ELSE REQUEST_DELAY

\* C16: in a fetch run every request but the first is sent when at least the
\* request delay of the provider has been slept since the request before it,
\* also when that request ended in an exception.
C16_MinimumSpacing ==
    (fetch.pc \in {"loop", "done"} /\ fetch.gap # -1) => fetch.gap >= ProviderDelay

\* C17: within one call of _request_with_retry the waits after successive 429
\* responses grow exponentially: the first is RETRY_DELAY and each later one
\* is at least double the one before it.
C17_BackoffExponential ==
    fetch.pc \in {"loop", "done"} =>
        /\ Len(fetch.waits) >= 1 => fetch.waits[1] = RETRY_DELAY
        /\ \A n \in 2..Len(fetch.waits) : fetch.waits[n] >= 2 * fetch.waits[n - 1]

\* the requests the call of _request_with_retry at hand, or the one that
\* ended last, has made: one per 429 waited out, and the one answered
\* otherwise
RetryRequests ==
    Len(fetch.waits) + (IF fetch.response.status = 429 THEN 0 ELSE 1)

\* C22: a call of _request_with_retry makes at most MAX_RETRIES requests; it
\* goes on to another request only after a 429 and only while fewer than
\* MAX_RETRIES requests were made; a response that is no error is returned,
\* so that its papers reach the run; an HTTP error other than 429 and a 429
\* to the last request end the call with an HTTPError; and every call ends.
C22_RetryBounded ==
    /\ []((fetch.pc \in {"loop", "done"} /\ fetch.provider = "semantic_scholar"
            /\ fetch.requested) =>
              LET status == fetch.response.status
                  in_call == fetch.attempt # 0
              IN  /\ RetryRequests <= MAX_RETRIES
                  /\ in_call <=> (status = 429 /\ Len(fetch.waits) < MAX_RETRIES)
                  /\ in_call => fetch.attempt = Len(fetch.waits) /\ fetch.error = "none"
                  /\ (status = 429 /\ ~in_call) => fetch.error = "HTTPError"
                  /\ (status >= 400 /\ status # 429) => fetch.error = "HTTPError"
                  /\ (status > 0 /\ status < 400) =>
                         /\ fetch.error = "none"
                         /\ \A n \in 1..Len(fetch.response.data) :
                                MetaGet(fetch.response.data[n], "citationCount", 0)
                                    >= fetch.min_score =>
                                \E k \in 1..Len(fetch.all_chunks) :
                                    fetch.all_chunks[k].id
                                        = paper_to_chunk(fetch.response.data[n]).id)
    /\ (fetch.attempt > 0) ~> (fetch.attempt = 0)

\* the second call of a run was answered 429 twice and then, to its third
\* request, with three papers, which the run holds
C22_Witness ==
    /\ fetch.pc = "loop" /\ fetch.provider = "semantic_scholar"
    /\ Len(fetch.attempted) = 2
    /\ fetch.waits = <<RETRY_DELAY, 2 * RETRY_DELAY>>
    /\ fetch.response.status = 200
    /\ fetch.gap = 2 * RETRY_DELAY
    /\ Len(fetch.all_chunks) = 3

\* C24: the records a run of fetch_reddit_rag_content holds, which it returns
\* at its end, have pairwise distinct ids, the posts they were made from
\* having pairwise different URLs.
C24_RedditIdsDistinct ==
    (fetch.pc \in {"loop", "done"} /\ fetch.provider = "reddit") =>
        \A i, j \in 1..Len(fetch.all_chunks) :
            i # j => fetch.all_chunks[i].id # fetch.all_chunks[j].id

-----------------------------------------------------------------------------
(* Properties of the adapters, checked under SpecAdapter                   *)

\* the items of the provider at hand that carry the natural key of item
SameKeyItems(item) ==
    {other \in AdapterItems(fetch.provider) :
        ItemKey(fetch.provider, other) = ItemKey(fetch.provider, item)}

\* C13: the id an adapter gives an item is the id it gives every item with
\* the same natural key, whatever their score, title or body; and upserting
\* the record of an item into a store that already holds a record made of an
\* item with the same natural key leaves the count of the store unchanged.
C13_IdFromNaturalKeyOnly ==
    last.op = "adapter_upsert" =>
        /\ \A other \in SameKeyItems(last.arg[2]) :
               ToChunk(fetch.provider, other).id = ToChunk(fetch.provider, last.arg[2]).id
        /\ (\E other \in SameKeyItems(last.arg[2]) :
               RowsWithId(last.before, ToChunk(fetch.provider, other).id) # {}) =>
                  get_collection_stats(collection).total_documents
                      = get_collection_stats(last.before).total_documents

\* an item was upserted after the store held the record of the same item with
\* another score, and the stored record is now the one of the new item
C13_Witness ==
    /\ last.op = "adapter_upsert" /\ last.error = "none"
    /\ "paperId" \in DOMAIN last.arg[2] \/ "question_id" \in DOMAIN last.arg[2]
           \/ "url" \in DOMAIN last.arg[2]
    /\ \E other \in SameKeyItems(last.arg[2]) \ {last.arg[2]} :
           \E row \in BagToSet(last.before) :
               /\ row.id = ToChunk(fetch.provider, other).id
               /\ row.document = ToChunk(fetch.provider, other).text
               /\ row.document # ToChunk(fetch.provider, last.arg[2]).text
    /\ \E row \in BagToSet(collection) :
           row.document = ToChunk(fetch.provider, last.arg[2]).text
    /\ get_collection_stats(collection).total_documents = 2

\* the natural key is present in the item
HasNaturalKey(provider, item) ==
    CASE provider = "reddit" -> MetaGet(item, "url", "") # ""
      [] provider = "stackoverflow" -> "question_id" \in DOMAIN item
      [] OTHER -> "paperId" \in DOMAIN item

PlaceholderIds == {"reddit_", "so_unknown", "ss_unknown"}

\* C15: making a record of an item that lacks its natural key fails, so that
\* nothing is written for it, and no record with a placeholder id or with an
\* empty text reaches the store.
C15_MissingKeyFailsLoudly ==
    last.op = "adapter_upsert" =>
        /\ ~HasNaturalKey(fetch.provider, last.arg[2]) =>
               last.error # "none" /\ collection = last.before
        /\ \A row \in BagToSet(collection) :
               row.id \notin PlaceholderIds /\ row.document # ""

-----------------------------------------------------------------------------
(* Properties of retrieval and of the store API, checked under Spec        *)

\* C18: the context retrieve_and_format returns for n >= 1 results consists
\* of n blocks separated by the delimiter, the i-th being "[i] (Source: "
\* with the source of the i-th result, ")", a line break and the text of the
\* i-th result; for no results it is the empty string.
C18_FormatContext ==
    (last.op = "retrieve_and_format" /\ last.error = "none") =>
        LET documents == last.result.results.documents
            metadatas == last.result.results.metadatas
            blocks == StrSplit(last.result.context, "\n\n---\n\n")
        IN  IF documents = <<>> THEN last.result.context = ""
            ELSE /\ Len(blocks) = Len(documents)
                 /\ \A i \in 1..Len(documents) :
                        blocks[i] = "[" \o ToString(i) \o "] (Source: "
                                    \o metadatas[i].source \o ")\n" \o documents[i]

\* two results of different sources were formatted
C18_Witness ==
    /\ last.op = "retrieve_and_format" /\ last.error = "none"
    /\ Len(last.result.results.documents) = 2
    /\ last.result.results.metadatas[1].source # last.result.results.metadatas[2].source
    /\ Len(StrSplit(last.result.context, "\n\n---\n\n")) = 2

\* C19: when the embedding of the batch of add_chunks or upsert_chunks fails,
\* the call raises the failure, the collection is as it was before the call
\* and nothing was written; and a call with records that wrote nothing has
\* raised the failure.
C19_EmbeddingFailureAtomic ==
    last.op \in {"add_chunks", "upsert_chunks"} =>
        /\ last.error = "EmbeddingFailure" =>
               /\ collection = last.before
               /\ last.writes = <<>>
               /\ last.embed_calls = <<Texts(last.arg)>>
        /\ (last.arg # <<>> /\ last.writes = <<>>) => last.error = "EmbeddingFailure"

\* the embedding failed for a batch of two records, one of them with the id
\* of a stored record and one new, and the store still holds what it held
C19_Witness ==
    /\ last.op \in {"add_chunks", "upsert_chunks"}
    /\ last.error = "EmbeddingFailure"
    /\ Len(last.arg) = 2
    /\ RowsWithId(collection, last.arg[1].id) # {}
    /\ RowsWithId(collection, last.arg[2].id) = {}

\* C23: add_chunks and upsert_chunks with one record or more call embed
\* exactly once, with the texts of all the records in record order; with an
\* empty list they call it not at all and leave the store as it was; query,
\* and with it retrieve and retrieve_and_format, calls embed exactly once, with
\* the query text alone.
C23_EmbedOncePerCall ==
    /\ last.op \in {"add_chunks", "upsert_chunks"} =>
           IF last.arg = <<>>
           THEN /\ last.embed_calls = <<>>
                /\ last.writes = <<>>
                /\ last.error = "none"
                /\ collection = last.before
           ELSE /\ Len(last.embed_calls) = 1
                /\ Len(last.embed_calls[1]) = Len(last.arg)
                /\ \A i \in 1..Len(last.arg) :
                       last.embed_calls[1][i] = last.arg[i].text
    /\ last.op \in {"query", "retrieve", "retrieve_and_format"} =>
           last.embed_calls = <<<<last.arg[1]>>>>

\* upsert_chunks wrote a batch of two records with different texts to a store
\* that held records
C23_Witness ==
    /\ last.op = "upsert_chunks"
    /\ last.error = "none"
    /\ Len(last.arg) = 2
    /\ last.arg[1].text # last.arg[2].text
    /\ last.writes = <<"upsert">>
    /\ last.before # EmptyBag

=============================================================================
